---- MODULE Spec2Model ----
(***************************************************************************)
(* Oracle CDC -> SQS bridge (FSTGIAT/oracle-cdc-sqs).                      *)
(*                                                                         *)
(* The module models the multi-source CDC process of cdc_service.py: the   *)
(* driver loop run_forever, the collector, the conversation assembler, the *)
(* outbound dispatcher and the inbound ingestor with its three destination *)
(* tables.  The source tables are read-only for the process and are fixed  *)
(* by Init; the SQS queues, the ML service behind them and the faults of   *)
(* the queue and of the database are the environment.                      *)
(*                                                                         *)
(* Clock columns (PROCESSED_AT, CREATION_DATE, LAST_UPDATED) and the       *)
(* recency predicates on SYSDATE are not carried: every source row of the  *)
(* model lies inside its source's time_filter window and inside the 90 day *)
(* window of the processed-ID subquery.                                    *)
(***************************************************************************)
EXTENDS Integers, Sequences, FiniteSets, Bags, TLC

(***************************************************************************)
(* Bounds of the model.                                                    *)
(***************************************************************************)
\* cycles of run_forever that are explored
MaxCycles == 2
\* messages the ML service puts on the inbound queue
MaxInbound == 2
\* faults the environment injects in one run: a send_message or
\* delete_message call that raises, a database statement that fails
MaxFaults == 2
\* values of a statistics counter that are told apart
MaxCount == 20
\* weekly evaluation runs that are explored
MaxRuns == 1
\* churned subscribers one evaluation finds
MaxChurned == 3
\* receive_message calls of a flush run that are explored
MaxReceives == 3
\* stands for CDC_CONFIG['max_batch_size'] (50, src/config.py:55), scaled
\* down so that FETCH FIRST can cut a batch
MaxBatchSize == 2
\* stands for max_length = 500 of extract_action_items_text, scaled down to
\* the length of the texts in TextItems
MaxActionLength == 6
\* rows the alert history can hold
MaxAlertRows == 2
\* reload notifications the apply endpoint sends
MaxNotifications == 2
\* messages of one call the backfill outbound count tells apart: the count
\* of a call stays at this value when more are sent
MaxSendCount == 3

(***************************************************************************)
(* Values.                                                                 *)
(***************************************************************************)
\* SQL NULL / Python None / a key that is absent
NULL == "NULL"
\* a text that is only white space, and a text with content
BLANK == "  "
TXT == "shalom"

\* MESSAGE_TYPES (config.py)
MESSAGE_TYPES == [CONVERSATION_TO_ML |-> "CONVERSATION_ASSEMBLY",
                  ML_RESULT |-> "ML_PROCESSING_RESULT"]

\* TABLE_SOURCES (config.py), the fields the process reads; the order of
\* SourceOrder is the insertion order of the dict, which run_forever follows
TABLE_SOURCES ==
  [verint |-> [table_name |-> "VERINT_TEXT_ANALYSIS",
               valid_channels |-> {"A", "C"},
               required_channels |-> {"A", "C"},
               cdc_mode_key |-> "CDC_NORMAL_MODE",
               min_segments |-> 11,
               enabled |-> TRUE,
               dest_source_type |-> "CALL"],
   sf_oc  |-> [table_name |-> "SF_OC_TEXT_ANALYSIS_TEMP",
               valid_channels |-> {"A", "B", "C"},
               required_channels |-> {"C"},
               cdc_mode_key |-> "CDC_NORMAL_MODE_SF_OC",
               min_segments |-> 5,
               enabled |-> TRUE,
               dest_source_type |-> "WAPP"]]

SourceOrder == <<"verint", "sf_oc">>

\* CDC_CONFIG['normal_mode_enabled'] / ['historical_mode_enabled']
normal_mode_enabled == TRUE
historical_mode_enabled == FALSE

(***************************************************************************)
(* Source tables.  A row is one fragment:                                  *)
(*   OWNER, TEXT, T = value of the source's time_column,                   *)
(*   TT = value of the source's text_time_column                           *)
(* (for verint both are CALL_TIME, so T = TT in every verint row).         *)
(* Rows that fail the source's base_filter are not in the model.           *)
(***************************************************************************)
\* the conversation ids of the model and the table each lives in
Ids == {"V1", "V2", "S1"}
IdSource == [V1 |-> "verint", V2 |-> "verint", S1 |-> "sf_oc"]

Cyc(pat, i) == pat[((i - 1) % Len(pat)) + 1]

\* n rows, the columns filled cyclically from the patterns
MkRows(n, owners, texts, times, ttimes) ==
  [i \in 1..n |-> [OWNER |-> Cyc(owners, i), TEXT |-> Cyc(texts, i),
                   T |-> Cyc(times, i), TT |-> Cyc(ttimes, i)]]

\* the contents a source table can have for one id
RowShapes(id) ==
  CASE id = "V1" ->
         { MkRows(11, <<"A", "C">>, <<TXT>>, <<1>>, <<1>>),        \* complete call
           MkRows(11, <<"A", "C">>, <<TXT>>, <<1, 2>>, <<1, 2>>),  \* fragments at two times
           MkRows(11, <<"A">>, <<TXT>>, <<1>>, <<1>>),             \* no customer channel
           MkRows(10, <<"A", "C">>, <<TXT>>, <<1>>, <<1>>),        \* one segment short
           MkRows(11, <<"A", "C">>, <<BLANK, NULL>>, <<1>>, <<1>>) } \* no text at all
    [] id = "V2" ->
         { << >>,                                                  \* the id is not in the table
           MkRows(12, <<"C", "A", NULL>>, <<TXT, BLANK>>, <<3>>, <<3>>),
           MkRows(11, <<"C">>, <<TXT>>, <<3>>, <<3>>) }
    [] id = "S1" ->
         { MkRows(5, <<"C", "B">>, <<TXT>>, <<1>>, <<1, 2, 3>>),
           MkRows(4, <<"C", "A">>, <<TXT>>, <<1>>, <<1, 2>>),
           MkRows(5, <<"A", "B">>, <<TXT>>, <<1>>, <<1>>) }

(***************************************************************************)
(* Helpers on sequences.                                                   *)
(***************************************************************************)
Range(s) == {s[i] : i \in DOMAIN s}

\* str.strip() on the texts of the model
Strip(t) == IF t = BLANK THEN "" ELSE t

\* Python truthiness of a text value
Truthy(t) == t # NULL /\ t # ""

\* ORDER BY text_time_column ASC: rows of equal time keep their stored order
RECURSIVE OrderByTextTime(_)
OrderByTextTime(s) ==
  IF s = << >> THEN << >>
  ELSE LET m == CHOOSE i \in DOMAIN s :
                  /\ \A j \in DOMAIN s : s[i].TT <= s[j].TT
                  /\ \A j \in 1..(i - 1) : s[j].TT # s[i].TT
           rest == [k \in 1..(Len(s) - 1) |-> IF k < m THEN s[k] ELSE s[k + 1]]
       IN  <<s[m]>> \o OrderByTextTime(rest)

(***************************************************************************)
(* Conversation assembly (assemble_conversation_for_source).               *)
(* rows is the result of the fragment query for record_id.  The result is  *)
(* the conversation document or None.                                      *)
(***************************************************************************)
\* the None that the assembler returns
NoConversation == [type |-> NULL]

\* the channels observed in the rows: set(row[3] for row in rows if row[3])
Channels(rows) == {rows[i].OWNER : i \in DOMAIN rows} \ {NULL}

\* the message built from one row
MessageOf(row) == [channel |-> row.OWNER, text |-> row.TEXT, timestamp |-> row.TT]

\* messages of the rows whose text is non-empty after strip()
RECURSIVE BuildMessages(_)
BuildMessages(rows) ==
  IF rows = << >> THEN << >>
  ELSE LET row == Head(rows)
       IN  IF Truthy(row.TEXT) /\ Truthy(Strip(row.TEXT))
           THEN <<MessageOf(row)>> \o BuildMessages(Tail(rows))
           ELSE BuildMessages(Tail(rows))

BuildConversation(record_id, source_id, rows) ==
  LET messages == BuildMessages(rows)
  IN  [type |-> MESSAGE_TYPES.CONVERSATION_TO_ML,
       callId |-> record_id,
       callTime |-> rows[1].TT,
       messages |-> messages,
       messageCount |-> Len(messages),
       source |-> "on-premises-cdc",
       sourceId |-> source_id]

\* mutant of assemble_conversation_for_source: no check of the channels
assemble_without_channel_check(record_id, source_id, table) ==
  LET source == TABLE_SOURCES[source_id]
      rows == OrderByTextTime(table[record_id])
  IN  IF rows = << >> THEN NoConversation
      ELSE IF Len(rows) < source.min_segments THEN NoConversation
      ELSE BuildConversation(record_id, source_id, rows)

assemble_conversation_for_source(record_id, source_id, table) ==
  LET source == TABLE_SOURCES[source_id]
      rows == OrderByTextTime(table[record_id])
  IN  IF rows = << >> THEN NoConversation
      ELSE IF Len(rows) < source.min_segments THEN NoConversation
      ELSE IF ~(source.required_channels \subseteq Channels(rows)) THEN NoConversation
      ELSE BuildConversation(record_id, source_id, rows)

(***************************************************************************)
(* Candidate collection (collect_new_calls_for_source).                    *)
(***************************************************************************)
\* SELECT DISTINCT id, time_column FROM table
\*   WHERE id NOT IN (SELECT CALL_ID FROM CDC_PROCESSED_CALLS ...)
CandidatePairs(source_id, table, processedCalls) ==
  UNION { {<<id, table[id][i].T>> : i \in DOMAIN table[id]} :
          id \in {x \in Ids : IdSource[x] = source_id /\ processedCalls[x] = 0} }

\* ORDER BY time_column ASC FETCH FIRST n ROWS ONLY: every listing the
\* database may return (rows of equal time come in any order)
FetchFirst(pairs, n) ==
  LET k == IF Cardinality(pairs) < n THEN Cardinality(pairs) ELSE n
  IN  { s \in [1..k -> pairs] :
          /\ \A i, j \in 1..k : i < j => s[i] # s[j] /\ s[i][2] <= s[j][2]
          /\ \A p \in pairs \ Range(s) : \A i \in 1..k : s[i][2] <= p[2] }

\* record_ids = [row[0] for row in rows]
RecordIds(rows) == [i \in DOMAIN rows |-> rows[i][1]]

\* the batches collect_new_calls_for_source can return
collect_new_calls_for_source(source_id, table, processedCalls) ==
  { RecordIds(rows) :
      rows \in FetchFirst(CandidatePairs(source_id, table, processedCalls), MaxBatchSize) }

(***************************************************************************)
(* Result payloads (the JSON body of an inbound message).                  *)
(* A JSON value is a record tag/n/s: tag is the JSON type, n the number    *)
(* (a float is carried in tenths), s the string.  A field that can be an   *)
(* object carries the object's entries beside the tag.                     *)
(***************************************************************************)
JVal(tag, n, s) == [tag |-> tag, n |-> n, s |-> s]
JAbsent == JVal("absent", 0, "")
JNull == JVal("null", 0, "")
JInt(n) == JVal("int", n, "")
JFloat(tenths) == JVal("float", tenths, "")
JStr(s) == JVal("str", 0, s)
\* a non-empty list
JList == JVal("list", 0, "")

\* the sentiment field: a scalar, or an object with an optional 'overall'
SentScalar(v) == [tag |-> v.tag, n |-> v.n, s |-> v.s, overall |-> JAbsent]
SentDict(overall) == [tag |-> "dict", n |-> 0, s |-> "", overall |-> overall]

\* the classification field: absent, a string, or an object with
\* optional 'primary' (NULL when absent) and 'all' (<< >> when absent)
ClassAbsent == [tag |-> "absent", s |-> "", primary |-> NULL, all |-> << >>]
ClassStr(s) == [tag |-> "str", s |-> s, primary |-> NULL, all |-> << >>]
ClassDict(primary, all) == [tag |-> "dict", s |-> "", primary |-> primary, all |-> all]

\* bool(v) of Python
PyTruthy(v) ==
  CASE v.tag = "absent" -> FALSE
    [] v.tag = "null" -> FALSE
    [] v.tag = "int" -> v.n # 0
    [] v.tag = "float" -> v.n # 0
    [] v.tag = "str" -> v.s # ""
    [] v.tag = "list" -> TRUE
    [] v.tag = "dict" -> TRUE

\* s.lower().strip() on the strings of the model
LowerStrip(s) ==
  CASE s = " Positive " -> "positive"
    [] s = "NEGATIVE" -> "negative"
    [] OTHER -> s

\* sentiment_map.get(key, 3)
sentiment_map(key) ==
  CASE key = "positive" -> 4
    [] key = "chiyuvi" -> 4
    [] key = "negative" -> 2
    [] key = "shlili" -> 2
    [] key = "neutral" -> 3
    [] key = "mixed" -> 3
    [] key = "unknown" -> 3
    [] OTHER -> 3

\* int(v): truncation toward zero for a float; TypeError for list and dict
IntRaises(v) == v.tag \in {"list", "dict"}
PyInt(v) ==
  CASE v.tag = "int" -> v.n
    [] v.tag = "float" -> IF v.n >= 0 THEN v.n \div 10 ELSE -((-v.n) \div 10)
    [] OTHER -> 0

\* sentiment_raw of write_ml_result (lines 1173-1177)
SentimentRaw(result) ==
  LET sentiment_data == result.sentiment
  IN  IF sentiment_data.tag \in {"dict", "absent"}
      THEN IF sentiment_data.overall.tag = "absent" THEN JInt(3)
           ELSE sentiment_data.overall
      ELSE IF PyTruthy(sentiment_data) THEN JVal(sentiment_data.tag, sentiment_data.n, sentiment_data.s)
           ELSE JInt(3)

\* the numeric sentiment (lines 1180-1185): raises |-> TRUE is the TypeError
\* of int() on a list or an object
NormalizeSentiment(result) ==
  LET sentiment_raw == SentimentRaw(result)
  IN  IF sentiment_raw.tag = "str"
      THEN [raises |-> FALSE, v |-> sentiment_map(LowerStrip(sentiment_raw.s))]
      ELSE IF PyTruthy(sentiment_raw)
           THEN [raises |-> IntRaises(sentiment_raw), v |-> PyInt(sentiment_raw)]
           ELSE [raises |-> FALSE, v |-> 3]

\* sentiment_value stored in CONVERSATION_SUMMARY (lines 1256-1260)
SentimentValue(result) ==
  LET sentiment_raw == result.sentiment
  IN  IF sentiment_raw.tag \in {"dict", "absent"}
      THEN IF sentiment_raw.overall.tag = "absent" THEN JStr("neutral")
           ELSE sentiment_raw.overall
      ELSE IF PyTruthy(sentiment_raw)
           THEN JStr(IF sentiment_raw.tag = "str" THEN sentiment_raw.s ELSE "str(number)")
           ELSE JStr("neutral")

\* str() of a classification object
DictRepr == "{...}"

\* classification and all_classifications (lines 1188-1200)
NormalizeClassification(result) ==
  LET classification_data == result.classification
      classifications_list == result.classifications
  IN  IF classification_data.tag = "dict" /\ Truthy(classification_data.primary)
      THEN [classification |-> classification_data.primary,
            all_classifications |-> classification_data.all]
      ELSE IF classifications_list # << >>
      THEN [classification |-> classifications_list[1],
            all_classifications |-> classifications_list]
      ELSE [classification |->
               CASE classification_data.tag = "dict" -> DictRepr
                 [] classification_data.tag = "str" /\ classification_data.s # "" -> classification_data.s
                 [] OTHER -> "unknown",
            all_classifications |-> << >>]

\* the category labels that are inserted (lines 1359-1376)
CategoryCodes(result) ==
  LET classification == NormalizeClassification(result).classification
      fromList == result.classifications
      fromAll == IF fromList # << >> THEN fromList
                 ELSE IF result.classification.tag = "dict" THEN result.classification.all
                 ELSE << >>
      fromPrimary == IF fromAll # << >> THEN fromAll
                     ELSE IF classification # "" THEN <<classification>> ELSE << >>
  IN  {c \in Range(fromPrimary) : Truthy(c) /\ Truthy(Strip(c))}

\* a result payload; churn_confidence is carried in hundredths
Result(callId, sourceId, sentiment, classification, classifications, churn_confidence) ==
  [callId |-> callId, sourceId |-> sourceId, sentiment |-> sentiment,
   classification |-> classification, classifications |-> classifications,
   churn_confidence |-> churn_confidence]

\* the results the ML service can return for a conversation
ResultsFor(id) ==
  { Result(id, NULL, SentScalar(JStr(" Positive ")),
           ClassDict("BILLING", <<"BILLING", "OFFER">>), << >>, 82),
    Result(id, IdSource[id], SentScalar(JInt(7)),
           ClassAbsent, <<"OFFER", "", "OFFER">>, 150),
    Result(id, NULL, SentDict(JList), ClassStr("BILLING"), << >>, 40) }

\* body of a message that is not JSON
NotJson == Result(NULL, NULL, SentScalar(JAbsent), ClassAbsent, << >>, 0)

\* an inbound SQS message: Body parses as JSON or not, the messageType
\* attribute, the parsed body
InboundMessage(json_ok, messageType, body) ==
  [state |-> "visible", json_ok |-> json_ok, messageType |-> messageType, body |-> body]

\* a slot of the inbound queue that holds no message yet
NoMessage ==
  [state |-> "absent", json_ok |-> FALSE, messageType |-> NULL, body |-> NotJson]

\* what can arrive on the inbound queue once the conversations of sentIds
\* are with the ML service
InboundContents(sentIds) ==
  {InboundMessage(TRUE, MESSAGE_TYPES.ML_RESULT, r) : r \in UNION {ResultsFor(id) : id \in sentIds}}
  \cup {InboundMessage(FALSE, MESSAGE_TYPES.ML_RESULT, NotJson)}
  \cup {InboundMessage(TRUE, MESSAGE_TYPES.CONVERSATION_TO_ML, NotJson)}

(***************************************************************************)
(* State.                                                                  *)
(***************************************************************************)
(***************************************************************************)
(* Text helpers of cdc_service.py.  A string is a sequence of characters,  *)
(* a Python value is a record with a tag: None, a str, a list of values or *)
(* a dict (its items in insertion order).                                  *)
(***************************************************************************)
PNone == [tag |-> "none", s |-> << >>, items |-> << >>, pairs |-> << >>]
PStr(s) == [tag |-> "str", s |-> s, items |-> << >>, pairs |-> << >>]
PList(items) == [tag |-> "list", s |-> << >>, items |-> items, pairs |-> << >>]
PDict(pairs) == [tag |-> "dict", s |-> << >>, items |-> << >>, pairs |-> pairs]

\* the spelling of the dict keys in use
KeyChars ==
  [action |-> <<"a", "c", "t", "i", "o", "n">>,
   name |-> <<"n", "a", "m", "e">>,
   text |-> <<"t", "e", "x", "t">>,
   due_date |-> <<"d", "u", "e", "_", "d", "a", "t", "e">>]

\* bool(value)
Bool(v) ==
  CASE v.tag = "none" -> FALSE
    [] v.tag = "str" -> v.s # << >>
    [] v.tag = "list" -> v.items # << >>
    [] v.tag = "dict" -> v.pairs # << >>

\* s.strip(chars) from the left and from the right
RECURSIVE str_lstrip(_, _)
str_lstrip(s, chars) ==
  IF s # << >> /\ Head(s) \in chars THEN str_lstrip(Tail(s), chars) ELSE s

RECURSIVE str_rstrip(_, _)
str_rstrip(s, chars) ==
  IF s # << >> /\ s[Len(s)] \in chars
  THEN str_rstrip(SubSeq(s, 1, Len(s) - 1), chars)
  ELSE s

\* s.strip()
str_strip(s) == str_rstrip(str_lstrip(s, {" "}), {" "})

\* s.lower(), over the letters in use
str_lower(s) == [i \in DOMAIN s |-> IF s[i] = "N" THEN "n" ELSE s[i]]

\* s[:n]
str_slice(s, n) == SubSeq(s, 1, IF n < Len(s) THEN n ELSE Len(s))

\* s.rfind(c): index from 0 of the last c, -1 when there is none
str_rfind(s, c) ==
  LET at == {i \in DOMAIN s : s[i] = c}
  IN  IF at = {} THEN -1 ELSE (CHOOSE i \in at : \A j \in at : j <= i) - 1

\* sep.join(parts)
RECURSIVE str_join(_, _)
str_join(parts, sep) ==
  IF parts = << >> THEN << >>
  ELSE IF Len(parts) = 1 THEN parts[1]
  ELSE parts[1] \o sep \o str_join(Tail(parts), sep)

\* s.split(c)
RECURSIVE str_split(_, _)
str_split(s, c) ==
  LET at == {i \in DOMAIN s : s[i] = c}
  IN  IF at = {} THEN <<s>>
      ELSE LET i == CHOOSE k \in at : \A j \in at : k <= j
           IN  <<SubSeq(s, 1, i - 1)>> \o str_split(SubSeq(s, i + 1, Len(s)), c)

\* for char in ['[', ']', '{', '}', '"', "'"]: s = s.replace(char, '')
BracketsAndQuotes == {"[", "]", "{", "}", "\"", "'"}
remove_brackets_and_quotes(s) == SelectSeq(s, LAMBDA c : c \notin BracketsAndQuotes)

CommaSpace == <<",", " ">>
NoneText == <<"N", "o", "n", "e">>

\* repr(value) and str(value)
RECURSIVE PyRepr(_)
PyRepr(v) ==
  CASE v.tag = "none" -> NoneText
    [] v.tag = "str" -> <<"'">> \o v.s \o <<"'">>
    [] v.tag = "list" ->
         <<"[">> \o str_join([i \in DOMAIN v.items |-> PyRepr(v.items[i])], CommaSpace) \o <<"]">>
    [] v.tag = "dict" ->
         <<"{">> \o str_join([i \in DOMAIN v.pairs |->
                                <<"'">> \o KeyChars[v.pairs[i].k] \o <<"'", ":", " ">>
                                  \o PyRepr(v.pairs[i].v)], CommaSpace) \o <<"}">>

PyStr(v) == IF v.tag = "str" THEN v.s ELSE PyRepr(v)

\* json.dumps(value)
RECURSIVE JsonDumps(_)
JsonDumps(v) ==
  CASE v.tag = "none" -> <<"n", "u", "l", "l">>
    [] v.tag = "str" -> <<"\"">> \o v.s \o <<"\"">>
    [] v.tag = "list" ->
         <<"[">> \o str_join([i \in DOMAIN v.items |-> JsonDumps(v.items[i])], CommaSpace) \o <<"]">>
    [] v.tag = "dict" ->
         <<"{">> \o str_join([i \in DOMAIN v.pairs |->
                                <<"\"">> \o KeyChars[v.pairs[i].k] \o <<"\"", ":", " ">>
                                  \o JsonDumps(v.pairs[i].v)], CommaSpace) \o <<"}">>


\* the values the helpers are applied to: list items, lists of at most two
\* items, dicts, strings that are not JSON, and the JSON text of the
\* lists and dicts
TextItems ==
  { PStr(<<"a", "b">>), PStr(<<"a", "b", "c">>), PStr(<<"a", "b", "c", "d">>),
    PStr(<<" ", "d", " ">>), PStr(<< >>), PStr(NoneText), PStr(<<"a", "'", "b">>),
    PNone,
    PDict(<<[k |-> "action", v |-> PStr(<<"a", "b", "c", "d">>)]>>),
    PDict(<<[k |-> "due_date", v |-> PStr(<<"a", "b">>)]>>),
    PDict(<<[k |-> "action", v |-> PStr(<< >>)], [k |-> "name", v |-> PStr(<<"a", "b">>)]>>),
    PDict(<<[k |-> "action", v |-> PStr(NoneText)], [k |-> "text", v |-> PStr(<<"a", "b", "c">>)]>>) }

TextLists ==
  {PList(<< >>)} \cup {PList(<<x>>) : x \in TextItems}
     \cup {PList(<<x, y>>) : x, y \in TextItems}

TextDicts ==
  {v \in TextItems : v.tag = "dict"}
    \cup { PDict(<< >>),
           PDict(<<[k |-> "name", v |-> PList(<<PStr(<<"a">>), PStr(<<"b">>)>>)]>>),
           PDict(<<[k |-> "text", v |-> PNone], [k |-> "name", v |-> PStr(<<"[", "a", "]">>)]>>) }

\* the documents json.loads can return here
JsonDocs == TextLists \cup TextDicts \cup {v \in TextItems : v.tag \in {"str", "none"}}

PlainStrings ==
  { <<"a", "b", ",", " ", "c", "d">>,
    <<" ", "[", "a", "b", "]", " ">>,
    <<"a", "b", "c", "d", "e", "f", "g", "h">>,
    <<"a", "b", "c", "d", " ", " ", "f", "g">>,
    <<"{", "a", "b", ",", ",", " ", "'", "c", "d", "'", " ", ",", "}">>,
    <<"{", "[", "\"", "a", "'", "s", "\"", "]", "}">>,
    <<" ", " ">> }

TextInputs ==
  {PNone, PStr(<< >>)} \cup {PStr(t) : t \in PlainStrings}
     \cup TextLists \cup TextDicts
     \cup {PStr(JsonDumps(v)) : v \in JsonDocs}
     \cup {PStr(<<" ">> \o JsonDumps(v) \o <<" ">>) : v \in TextDicts}

\* json.loads(s): the document whose JSON text is s, or JSONDecodeError
JsonLoads(s) ==
  LET docs == {v \in JsonDocs : JsonDumps(v) = s}
  IN  IF docs = {} THEN [ok |-> FALSE, v |-> PNone]
      ELSE [ok |-> TRUE, v |-> CHOOSE v \in docs : TRUE]

TEXT_FIELDS == <<"action", "description", "name", "instructions", "task", "item", "text">>

\* d.get(field), None when the key is absent
DictGet(d, field) ==
  LET at == {i \in DOMAIN d.pairs : d.pairs[i].k = field}
  IN  IF at = {} THEN PNone ELSE d.pairs[CHOOSE i \in at : TRUE].v

\* extract_text_from_dict (lines 51-64)
extract_text_from_dict(d) ==
  IF d.tag # "dict" THEN (IF Bool(d) THEN str_strip(PyStr(d)) ELSE << >>)
  ELSE LET usable(field) ==
             /\ Bool(DictGet(d, field))
             /\ LET text == str_strip(PyStr(DictGet(d, field)))
                IN  text # << >> /\ str_lower(text) # str_lower(NoneText)
           found == SelectSeq(TEXT_FIELDS, usable)
       IN  IF found = << >> THEN << >> ELSE str_strip(PyStr(DictGet(d, found[1])))

\* the texts collected from a list (lines 83-90) or a single dict (93-96)
ActionTexts(value) ==
  LET text_of(item) ==
        IF item.tag = "dict" THEN extract_text_from_dict(item)
        ELSE IF /\ Bool(item)
                /\ str_strip(PyStr(item)) # << >>
                /\ str_lower(PyStr(item)) # str_lower(NoneText)
             THEN str_strip(PyStr(item))
             ELSE << >>
  IN  CASE value.tag = "list" ->
             SelectSeq([i \in DOMAIN value.items |-> text_of(value.items[i])],
                       LAMBDA t : t # << >>)
        [] value.tag = "dict" ->
             IF extract_text_from_dict(value) # << >>
             THEN <<extract_text_from_dict(value)>> ELSE << >>
        [] OTHER -> << >>

\* mutant of Truncate: the text is cut at max_length and nothing else
TruncateCutOnly(result, max_length) == str_slice(result, max_length)

\* the truncation at the end of extract_action_items_text (lines 101-108);
\* last_comma > max_length * 0.5 is compared without fractions
Truncate(result, max_length) ==
  IF Len(result) > max_length
  THEN LET cut == str_slice(result, max_length)
           last_comma == str_rfind(cut, ",")
           kept == IF 2 * last_comma > max_length THEN str_slice(cut, last_comma) ELSE cut
       IN  str_rstrip(kept, {",", " "})
  ELSE result

\* extract_action_items_text(value, max_length) (lines 29-110)
extract_action_items_text(value, max_length) ==
  IF ~Bool(value) THEN << >>
  ELSE LET parsed == IF value.tag = "str" THEN JsonLoads(str_strip(value.s))
                     ELSE [ok |-> TRUE, v |-> value]
       IN  IF ~parsed.ok
           THEN str_strip(str_slice(remove_brackets_and_quotes(str_strip(value.s)), max_length))
           ELSE Truncate(str_join(ActionTexts(parsed.v), CommaSpace), max_length)

\* mutant of clean_str: the brackets and quotes are kept
clean_str_trim_only(s) == str_strip(s)

\* clean_str of clean_json_to_csv (lines 126-129)
clean_str(s) == str_strip(remove_brackets_and_quotes(s))

\* the list branch (lines 132-134 and 148-150)
CleanList(value) ==
  LET kept == SelectSeq(value.items, Bool)
      cleaned_items == [i \in DOMAIN kept |-> clean_str(PyStr(kept[i]))]
  IN  str_join(SelectSeq(cleaned_items, LAMBDA item : item # << >>), CommaSpace)

\* the dict branch (lines 137-138 and 151-152)
CleanDict(value) ==
  LET kept == SelectSeq(value.pairs, LAMBDA p : Bool(p.v))
  IN  str_join([i \in DOMAIN kept |->
                  KeyChars[kept[i].k] \o <<":", " ">> \o clean_str(PyStr(kept[i].v))],
               CommaSpace)

\* the fallback for a string that is not a JSON list or dict (lines 156-163)
CleanPlain(s) ==
  LET parts == str_split(remove_brackets_and_quotes(s), ",")
      trimmed == [i \in DOMAIN parts |-> str_strip(parts[i])]
  IN  str_join(SelectSeq(trimmed, LAMBDA part : part # << >>), CommaSpace)

\* clean_json_to_csv(value) (lines 113-165)
clean_json_to_csv(value) ==
  IF ~Bool(value) THEN << >>
  ELSE CASE value.tag = "list" -> CleanList(value)
         [] value.tag = "dict" -> CleanDict(value)
         [] value.tag = "str" ->
              LET stripped == str_strip(value.s)
                  parsed == JsonLoads(stripped)
              IN  IF parsed.ok /\ parsed.v.tag = "list" THEN CleanList(parsed.v)
                  ELSE IF parsed.ok /\ parsed.v.tag = "dict" THEN CleanDict(parsed.v)
                  ELSE CleanPlain(stripped)

VARIABLES
  source_rows,             \* id -> rows of the id in its source table
  pc,                      \* position of the driver in run_forever
  src_idx,                 \* index in SourceOrder of the source in work
  batch,                   \* record_ids not yet processed in the batch
  received,                \* messages of the last receive not yet handled
  stats,                   \* self.stats
  pending_source_types,    \* self.pending_source_types (NULL: no key)
  cdc_processed_calls,     \* CDC_PROCESSED_CALLS: id -> SQS_MESSAGE_ID, 0: no row
  cdc_processing_status,   \* CDC_PROCESSING_STATUS: mode key -> TOTAL_PROCESSED
  error_log,               \* ERROR_LOG, in insertion order
  outbound,                \* messages sent to the outbound queue
  inbound,                 \* the inbound queue
  dicta_call_summary,      \* DICTA_CALL_SUMMARY, a bag of rows
  conversation_summary,    \* CONVERSATION_SUMMARY, a bag of rows
  conversation_category,   \* CONVERSATION_CATEGORY, a bag of rows
  last_dispatch,           \* argument and return value of the last send_to_sqs_for_source
  last_record,             \* the last record of process_batch_for_source and its outcome
  last_write,              \* argument and return value of the last write_ml_result
  first_try,               \* message -> source_type and return value of its first write
  applied,                 \* id -> payload and source_type of the last write that succeeded
  faults,                  \* faults injected so far
  text_call,               \* the last call of a text helper: function, argument, result
  alert_history,           \* ALERT_HISTORY, in insertion order; HISTORY_ID is the index
  evaluator,               \* process -> position of its evaluate_all_alerts run
  alert_op,                \* the last operation on the alert tables
  recommendations,         \* ML_CONFIG_RECOMMENDATIONS: rec_id -> row
  s3_objects,              \* the config objects of the S3 bucket
  notifications,           \* messages sent to the ml-config-updates queue
  mlq_op,                  \* the last call of an ml_quality endpoint and what it did
  bf_pc,                   \* position of BackfillService.run
  phase,                   \* self.phase of the BackfillService
  bf_batch,                \* calls of the batch not yet processed
  bf_processed,            \* CDC_PROCESSED_CALLS as the backfill sees it: id -> TEXT_TIME, 0: no row
  bf_outbound,             \* id -> messages sent to the outbound queue by the backfill
  bf_bulk_last,            \* CALL_TIME of the last row of the latest bulk batch, 0: no batch yet
  bf_last,                 \* the last step of the backfill and its outcome
  run_pc,                  \* position of the entry point: start, loop, flush, returned, stopped
  is_running,              \* self.is_running
  tables,                  \* the tables of REQUIRED_TABLES that exist in the database
  run_last,                \* the last startup, interrupt or loop error and where it happened
  eval_recs,               \* rows of ML_CONFIG_RECOMMENDATIONS the evaluation service inserted
  eval_history,            \* ML_EVALUATION_HISTORY, in insertion order
  eval_last,               \* the last weekly evaluation: its number, its metrics, what it stored
  historical               \* historical mode: its status row, position and batch in work

cdcVars == <<pc, src_idx, batch, stats, pending_source_types, cdc_processed_calls,
             cdc_processing_status, error_log, outbound, last_dispatch, last_record>>
ingestVars == <<received, inbound, dicta_call_summary, conversation_summary,
                conversation_category, last_write, first_try, applied>>
\* the state outside the CDC process object
textVars == <<text_call>>
alertVars == <<alert_history, evaluator, alert_op>>
mlqVars == <<recommendations, s3_objects, notifications, mlq_op>>
backfillVars == <<bf_pc, phase, bf_batch, bf_processed, bf_outbound, bf_bulk_last, bf_last>>
runVars == <<run_pc, is_running, tables, run_last>>
evalVars == <<eval_recs, eval_history, eval_last>>
componentVars == <<textVars, alertVars, mlqVars, backfillVars, runVars, evalVars, historical>>
pipelineVars == <<source_rows, cdcVars, ingestVars>>
\* what the actions of one component leave alone in the others
notText == <<pipelineVars, faults, alertVars, mlqVars, backfillVars, runVars, evalVars, historical>>
notAlerts == <<pipelineVars, textVars, mlqVars, backfillVars, runVars, evalVars, historical>>
notMlq == <<pipelineVars, textVars, alertVars, backfillVars, runVars, evalVars, historical>>
notBackfill == <<source_rows, cdcVars, ingestVars, textVars, alertVars, mlqVars, runVars, evalVars, historical>>
vars == <<pipelineVars, faults, componentVars>>

\* the processes that call evaluate_all_alerts: alert_evaluation_service.py
\* and the /evaluate endpoint of the dashboard
Evaluators == {"service", "dashboard"}
\* failed: a query of the configuration in work returned nothing because it
\* raised
EvaluatorIdle == [pc |-> "idle", todo |-> << >>, value |-> 0, failed |-> FALSE]
NoAlertOp == [op |-> NULL, history_id |-> 0]

NoNotes == [rejected_by |-> NULL, reason |-> NULL]

\* the recommendation rows evaluation_service.py has stored, one of each
\* type it generates for the config objects and one that has no object
InitialRecommendations ==
  [R1 |-> [REC_TYPE |-> "churn_keywords", keywords |-> {"k1"}, recommended_value |-> 0,
           STATUS |-> "PENDING", APPROVED_BY |-> NULL, NOTES |-> NoNotes],
   R2 |-> [REC_TYPE |-> "churn_threshold", keywords |-> {}, recommended_value |-> 40,
           STATUS |-> "PENDING", APPROVED_BY |-> NULL, NOTES |-> NoNotes],
   R3 |-> [REC_TYPE |-> "pipeline_coverage", keywords |-> {}, recommended_value |-> 0,
           STATUS |-> "PENDING", APPROVED_BY |-> NULL, NOTES |-> NoNotes]]

\* configs/classification-keywords.json (churn_keywords.medium) and
\* configs/call-classifications.json (churn_detection.threshold, in
\* hundredths)
InitialObjects == [medium |-> {"k0"}, threshold |-> 70]

NoMlqOp == [op |-> NULL, rec_id |-> NULL, status |-> 0, gets |-> 0, puts |-> 0,
            retried |-> FALSE, fault |-> "none"]

\* the backfill has not made a step
NoBackfillStep == [op |-> NULL, call_id |-> NULL, call_time |-> 0, rejected |-> FALSE,
                   conversation |-> FALSE, sent |-> FALSE, marked |-> FALSE,
                   query_ok |-> TRUE]

\* config.py REQUIRED_TABLES
REQUIRED_TABLES == {"CDC_PROCESSING_STATUS", "CDC_PROCESSED_CALLS", "CDC_PROCESSING_LOG",
                    "ERROR_LOG", "SQS_PERMANENT_FAILURES", "DICTA_CALL_SUMMARY"}

\* nothing has happened to the entry point yet
NoRunEvent == [event |-> NULL, point |-> NULL, record_id |-> NULL, cycle |-> 0]

\* a ratio of two counts, as the code divides them
Ratio(num, den) == [num |-> num, den |-> den]
\* the metrics of a run that returned before evaluate_churn_predictions
NoMetrics == [total_churned |-> 0, with_score |-> 0, without_score |-> 0,
              high_risk_caught |-> 0, medium_plus_caught |-> 0,
              recall_high |-> Ratio(0, 1), recall_medium |-> Ratio(0, 1),
              recall |-> Ratio(0, 1), coverage |-> Ratio(0, 1)]
\* no weekly evaluation has run
NoEvaluation == [run |-> 0, evaluated |-> FALSE, metrics |-> NoMetrics,
                 stored |-> FALSE, feedback_stored |-> FALSE]

\* positions in time of the historical mode: historical_start_date, the
\* length of the window of one cycle, and the wall clock of the run, which
\* is later than every fragment
HistoricalStart == 1
HistoricalDay == 2
UtcNow == 6
\* the row CDC_HISTORICAL_MODE as create_tables inserts it, enabled, and a
\* process that has not collected yet
NoHistorical == [pc |-> "collect", last_processed_timestamp |-> HistoricalStart,
                 total_processed |-> 0, batch |-> << >>, batch_max |-> 0,
                 batch_done |-> FALSE, cycle |-> 0]

\* no text helper has been called
NoCall == [fn |-> NULL, value |-> PNone, out |-> << >>]

MessageSlots == 1..MaxInbound
ModeKeys == {TABLE_SOURCES[s].cdc_mode_key : s \in Range(SourceOrder)}

NoDispatch == [call_id |-> NULL, source_id |-> NULL, message_id |-> 0, sent |-> FALSE]
NoRecord == [record_id |-> NULL, outcome |-> NULL]
NoWrite == [slot |-> 0, call_id |-> NULL, source_type |-> NULL, success |-> FALSE]
NoTry == [source_type |-> NULL, success |-> FALSE]
NoApplied == [result |-> NotJson, source_type |-> NULL]

\* the state of a process that has just been constructed
Constructed ==
  /\ pc = "sleep"
  /\ src_idx = 1
  /\ batch = << >>
  /\ received = << >>
  /\ stats = [total_calls_processed |-> 0, total_calls_failed |-> 0,
              total_sqs_sent |-> 0, total_sqs_failed |-> 0,
              total_ml_results_received |-> 0, total_ml_results_written |-> 0,
              cycles_completed |-> 0]
  /\ pending_source_types = [id \in Ids |-> NULL]
  /\ cdc_processed_calls = [id \in Ids |-> 0]
  /\ cdc_processing_status = [m \in ModeKeys |-> 0]
  /\ error_log = << >>
  /\ outbound = << >>
  /\ inbound = [m \in MessageSlots |-> NoMessage]
  /\ dicta_call_summary = EmptyBag
  /\ conversation_summary = EmptyBag
  /\ conversation_category = EmptyBag
  /\ last_dispatch = NoDispatch
  /\ last_record = NoRecord
  /\ last_write = NoWrite
  /\ first_try = [m \in MessageSlots |-> NoTry]
  /\ applied = [id \in Ids |-> NoApplied]
  /\ faults = 0

\* run_forever has connected, found every required table and set
\* self.is_running = True
LoopEntered ==
  /\ run_pc = "loop"
  /\ is_running = TRUE
  /\ tables = REQUIRED_TABLES
  /\ run_last = NoRunEvent

\* the state of a process at the top of the first cycle
InitProcess ==
  /\ Constructed
  /\ LoopEntered

\* the components outside the CDC process have not been used
ComponentsIdle ==
  /\ text_call = NoCall
  /\ alert_history = << >>
  /\ evaluator = [e \in Evaluators |-> EvaluatorIdle]
  /\ alert_op = NoAlertOp
  /\ recommendations = InitialRecommendations
  /\ s3_objects = InitialObjects
  /\ notifications = << >>
  /\ mlq_op = NoMlqOp
  /\ bf_pc = "start"
  /\ phase = "BULK"
  /\ bf_batch = << >>
  /\ bf_processed = [id \in Ids |-> 0]
  /\ bf_outbound = [id \in Ids |-> 0]
  /\ bf_bulk_last = 0
  /\ bf_last = NoBackfillStep
  /\ eval_recs = << >>
  /\ eval_history = << >>
  /\ eval_last = NoEvaluation
  /\ historical = NoHistorical

(***************************************************************************)
(* The CDC loop: run_forever, one cycle after the other.                   *)
(***************************************************************************)
\* counter += 1; a counter that has reached MaxCount is not told apart
\* from a larger one
Bump(counter) == [stats EXCEPT ![counter] = IF @ < MaxCount THEN @ + 1 ELSE @]

\* where the driver goes when the source in work is finished: the next
\* source of TABLE_SOURCES, or receive_ml_results after the last one (the
\* historical pass is skipped, historical_mode_enabled is False)
AfterSourcePc == IF src_idx < Len(SourceOrder) THEN "collect" ELSE "ingest"
AfterSourceIdx == IF src_idx < Len(SourceOrder) THEN src_idx + 1 ELSE src_idx

\* top of the while loop: cycles_completed += 1
StartCycle ==
  /\ run_pc = "loop"
  /\ is_running
  /\ pc = "sleep"
  /\ stats.cycles_completed < MaxCycles
  /\ stats' = Bump("cycles_completed")
  /\ pc' = IF normal_mode_enabled THEN "collect" ELSE "ingest"
  /\ src_idx' = 1
  /\ UNCHANGED <<source_rows, componentVars, batch, pending_source_types, cdc_processed_calls,
                 cdc_processing_status, error_log, outbound, last_dispatch,
                 last_record, ingestVars, faults>>

\* record_ids = self.collect_new_calls_for_source(source_id)
Collect ==
  /\ pc = "collect"
  /\ LET source_id == SourceOrder[src_idx]
     IN  \E record_ids \in
              IF TABLE_SOURCES[source_id].enabled
              THEN collect_new_calls_for_source(source_id, source_rows, cdc_processed_calls)
              ELSE {<< >>} :
           /\ batch' = record_ids
           /\ pc' = IF record_ids # << >> THEN "batch" ELSE AfterSourcePc
           /\ src_idx' = IF record_ids # << >> THEN src_idx ELSE AfterSourceIdx
  /\ UNCHANGED <<source_rows, componentVars, stats, pending_source_types, cdc_processed_calls,
                 cdc_processing_status, error_log, outbound, last_dispatch,
                 last_record, ingestVars, faults>>

\* mutant of log_error: the row is written with the type of the outer handler
log_error_wrong_type(log, call_id, error_type) ==
  Append(log, [CALL_ID |-> call_id, ERROR_TYPE |-> "PROCESSING_ERROR"])

\* log_error: one row appended to ERROR_LOG
log_error(log, call_id, error_type) ==
  Append(log, [CALL_ID |-> call_id, ERROR_TYPE |-> error_type])

\* mark_call_processed_for_source: the row is inserted unless one exists;
\* a database error (mark_ok false) is caught and only written to the log file
mark_call_processed_for_source(calls, call_id, sqs_message_id, mark_ok) ==
  IF mark_ok /\ calls[call_id] = 0
  THEN [calls EXCEPT ![call_id] = sqs_message_id]
  ELSE calls

\* update_cdc_status: TOTAL_PROCESSED = TOTAL_PROCESSED + 1 of the mode's row
update_cdc_status(status, mode) == [status EXCEPT ![mode] = @ + 1]

\* the message send_message puts on the outbound queue
OutboundMessage(conversation, source_id) ==
  [MessageBody |-> conversation,
   MessageAttributes |-> [messageType |-> MESSAGE_TYPES.CONVERSATION_TO_ML,
                          source |-> "on-premises-cdc",
                          callId |-> conversation.callId,
                          sourceId |-> source_id]]

\* send_to_sqs_for_source and what process_batch_for_source does with its
\* return value.  send_ok: send_message returned; mark_ok: the mark step
\* reached its commit.
Dispatch(conversation, source_id, send_ok, mark_ok) ==
  LET call_id == conversation.callId
      message_id == Len(outbound) + 1
      mode == TABLE_SOURCES[source_id].cdc_mode_key
  IN  IF send_ok
      THEN /\ outbound' = Append(outbound, OutboundMessage(conversation, source_id))
           /\ pending_source_types' =
                [pending_source_types EXCEPT ![call_id] = TABLE_SOURCES[source_id].dest_source_type]
           /\ cdc_processed_calls' =
                mark_call_processed_for_source(cdc_processed_calls, call_id, message_id, mark_ok)
           /\ last_dispatch' = [call_id |-> call_id, source_id |-> source_id,
                                message_id |-> message_id, sent |-> TRUE]
           /\ cdc_processing_status' = update_cdc_status(cdc_processing_status, mode)
           /\ stats' = [stats EXCEPT !.total_sqs_sent = @ + 1,
                                     !.total_calls_processed = @ + 1]
           /\ last_record' = [record_id |-> call_id, outcome |-> "sent"]
           /\ UNCHANGED error_log
      ELSE /\ error_log' = log_error(error_log, call_id, "SQS_SEND_FAILED")
           /\ last_dispatch' = [call_id |-> call_id, source_id |-> source_id,
                                message_id |-> 0, sent |-> FALSE]
           /\ stats' = [stats EXCEPT !.total_sqs_failed = @ + 1,
                                     !.total_calls_failed = @ + 1]
           /\ last_record' = [record_id |-> call_id, outcome |-> "send_failed"]
           /\ UNCHANGED <<outbound, pending_source_types, cdc_processed_calls,
                          cdc_processing_status>>

\* faults of one dispatch: the send raised, or it returned and the mark failed
DispatchFaults(send_ok, mark_ok) == IF send_ok /\ mark_ok THEN 0 ELSE 1

\* why the assembler returned None for the rows of an id
RejectReason(record_id, source_id, table) ==
  LET source == TABLE_SOURCES[source_id]
      rows == table[record_id]
  IN  IF rows = << >> THEN "no_data"
      ELSE IF Len(rows) < source.min_segments THEN "too_short"
      ELSE "missing_channels"

\* one pass of the for loop of process_batch_for_source
ProcessRecord ==
  /\ pc = "batch"
  /\ batch # << >>
  /\ LET source_id == SourceOrder[src_idx]
         record_id == Head(batch)
         conversation == assemble_conversation_for_source(record_id, source_id, source_rows)
     IN  IF conversation.type # NULL
         THEN \E send_ok, mark_ok \in BOOLEAN :
                /\ Dispatch(conversation, source_id, send_ok, mark_ok)
                /\ faults' = faults + DispatchFaults(send_ok, mark_ok)
                /\ faults' <= MaxFaults
         ELSE /\ stats' = Bump("total_calls_failed")
              /\ UNCHANGED faults
              /\ last_record' = [record_id |-> record_id,
                                 outcome |-> RejectReason(record_id, source_id, source_rows)]
              /\ UNCHANGED <<outbound, pending_source_types, cdc_processed_calls,
                             cdc_processing_status, error_log, last_dispatch>>
  /\ batch' = Tail(batch)
  /\ pc' = IF Tail(batch) # << >> THEN "batch" ELSE AfterSourcePc
  /\ src_idx' = IF Tail(batch) # << >> THEN src_idx ELSE AfterSourceIdx
  /\ UNCHANGED <<source_rows, componentVars, ingestVars>>

(***************************************************************************)
(* Result ingestion: write_ml_result and receive_ml_results.               *)
(***************************************************************************)
\* DELETE FROM table WHERE gone(row); INSERT of one row
DeleteWhere(table, gone(_)) == [r \in {x \in DOMAIN table : ~gone(x)} |-> table[r]]
InsertRow(table, row) == table (+) SetToBag({row})
InsertRows(table, rows) == table (+) SetToBag(rows)

\* mutant of DerivedSourceType: the payload's source id is looked up first
DerivedFromPayloadFirst(pending, result) ==
  IF result.sourceId # NULL THEN TABLE_SOURCES[result.sourceId].dest_source_type
  ELSE IF pending[result.callId] # NULL THEN pending[result.callId]
  ELSE "CALL"

\* self.pending_source_types.pop(str(call_id), 'CALL'): the value ...
DerivedSourceType(pending, result) ==
  IF pending[result.callId] # NULL THEN pending[result.callId] ELSE "CALL"
\* ... and the dict that is left
PopPending(pending, result) == [pending EXCEPT ![result.callId] = NULL]

\* insert_params of DICTA_CALL_SUMMARY (lines 1216-1227)
DictaRow(result) ==
  LET c == NormalizeClassification(result)
  IN  [CALL_ID |-> result.callId,
       SENTIMENT |-> NormalizeSentiment(result).v,
       CLASSIFICATION_PRIMARY |-> IF c.classification # "" THEN c.classification ELSE "unknown",
       CLASSIFICATION_ALL |-> c.all_classifications]

\* mutant of WriteDicta: the row is inserted without the DELETE
WriteDictaNoDelete(table, result) == InsertRow(table, DictaRow(result))

\* DELETE by CALL_ID, INSERT, commit (lines 1229-1250)
WriteDicta(table, result) ==
  InsertRow(DeleteWhere(table, LAMBDA r : r.CALL_ID = result.callId), DictaRow(result))

\* churn_score = churn_confidence * 100 (line 1272)
ChurnScore(result) == (result.churn_confidence * 100) \div 100

\* SELECT ... FROM <table of source_type> WHERE id = :call_id AND ROWNUM = 1
\* (lines 1275-1306): text time of the row read first, 0 when no row is found
ConversationTime(result, source_type, table) ==
  LET source_id == IF source_type = "WAPP" THEN "sf_oc" ELSE "verint"
  IN  IF IdSource[result.callId] = source_id /\ table[result.callId] # << >>
      THEN table[result.callId][1].TT
      ELSE 0

SummaryRow(result, source_type, table) ==
  [SOURCE_TYPE |-> source_type,
   SOURCE_ID |-> result.callId,
   SENTIMENT |-> SentimentValue(result),
   CHURN_SCORE |-> ChurnScore(result),
   CONVERSATION_TIME |-> ConversationTime(result, source_type, table)]

\* DELETE by (SOURCE_ID, SOURCE_TYPE), INSERT, commit (lines 1318-1348)
WriteSummary(table, result, source_type, srcTable) ==
  InsertRow(DeleteWhere(table, LAMBDA r : r.SOURCE_ID = result.callId /\ r.SOURCE_TYPE = source_type),
            SummaryRow(result, source_type, srcTable))

CategoryRow(result, source_type, category_code) ==
  [SOURCE_ID |-> result.callId, SOURCE_TYPE |-> source_type, CATEGORY_CODE |-> category_code]

\* DELETE by (SOURCE_ID, SOURCE_TYPE), one INSERT per label, commit (lines 1380-1399)
WriteCategories(table, result, source_type) ==
  InsertRows(DeleteWhere(table, LAMBDA r : r.SOURCE_ID = result.callId /\ r.SOURCE_TYPE = source_type),
             {CategoryRow(result, source_type, c) : c \in CategoryCodes(result)})

\* where write_ml_result fails: in no statement, or in the transaction of
\* DICTA_CALL_SUMMARY, of CONVERSATION_SUMMARY or of CONVERSATION_CATEGORY;
\* the rollback undoes the statements of that transaction only
WriteFaults == {"none", "dicta", "summary", "category"}

\* mutant of Rollback: the statements of the failed transaction stay
RollbackMissing(before, uncommitted) == uncommitted

\* self.oracle_conn.rollback() in the except blocks (lines 1353, 1403, 1418):
\* the table is as it was at the last commit
Rollback(before, uncommitted) == before

\* the tables of a transaction that failed between its DELETE and its INSERT
DictaDeleted(table, result) ==
  DeleteWhere(table, LAMBDA r : r.CALL_ID = result.callId)

KeyDeleted(table, result, source_type) ==
  DeleteWhere(table, LAMBDA r : r.SOURCE_ID = result.callId /\ r.SOURCE_TYPE = source_type)

\* mutant of ResultCounters: the message is counted as received before
\* the outcome of the write is looked at
ResultCountersBeforeWrite(counters, success, delete_ok, counted) ==
  [counters EXCEPT
     !.total_ml_results_written = IF success THEN @ + 1 ELSE @,
     !.total_ml_results_received = IF counted THEN @ + 1 ELSE @]

\* total_ml_results_written += 1 at the end of a write that succeeded (line
\* 1409); total_ml_results_received += 1 in receive_ml_results after the
\* write returned True and the message was deleted (lines 1133-1141)
ResultCounters(counters, success, delete_ok, counted) ==
  [counters EXCEPT
     !.total_ml_results_written = IF success THEN @ + 1 ELSE @,
     !.total_ml_results_received =
        IF counted /\ success /\ delete_ok THEN @ + 1 ELSE @]

\* the TypeError of int() is raised before the first statement
EffectiveFault(result, fault) ==
  IF NormalizeSentiment(result).raises THEN "dicta" ELSE fault

\* receive_ml_results returns the messages of one receive_message call:
\* any of the visible messages (at most 10)
ReceiveMlResults ==
  /\ pc = "ingest"
  /\ \E got \in SUBSET {m \in MessageSlots : inbound[m].state = "visible"} :
       /\ Cardinality(got) <= 10
       /\ received' = [i \in 1..Cardinality(got) |->
                         CHOOSE m \in got : Cardinality({x \in got : x < m}) = i - 1]
       /\ pc' = IF got # {} THEN "results" ELSE "sleep"
  /\ UNCHANGED <<source_rows, componentVars, src_idx, batch, stats, pending_source_types,
                 cdc_processed_calls, cdc_processing_status, error_log, outbound,
                 last_dispatch, last_record, inbound, dicta_call_summary,
                 conversation_summary, conversation_category, last_write,
                 first_try, applied, faults>>

\* mutant of DeleteOnSuccess: the message is deleted whatever the write returned
DeleteAlways(queue, slot, success, delete_ok) ==
  [queue EXCEPT ![slot].state = "deleted"]

\* if success: delete_message(ReceiptHandle) (lines 1133-1138); delete_ok
\* false: the call raises and the message stays
DeleteOnSuccess(queue, slot, success, delete_ok) ==
  IF success /\ delete_ok
  THEN [queue EXCEPT ![slot].state = "deleted"]
  ELSE queue

\* write_ml_result(body) for the message in slot, then delete_message when
\* it returned True (delete_ok false: delete_message raises); counted:
\* the caller adds the message to total_ml_results_received
WriteMessage(slot, result, fault, delete_ok, counted) ==
  LET source_type == DerivedSourceType(pending_source_types, result)
      eff == EffectiveFault(result, fault)
      success == eff = "none"
  IN  /\ pending_source_types' = PopPending(pending_source_types, result)
      /\ dicta_call_summary' =
           IF NormalizeSentiment(result).raises THEN dicta_call_summary
           ELSE IF eff = "dicta"
           THEN Rollback(dicta_call_summary, DictaDeleted(dicta_call_summary, result))
           ELSE WriteDicta(dicta_call_summary, result)
      /\ conversation_summary' =
           IF eff = "dicta" THEN conversation_summary
           ELSE IF eff = "summary"
           THEN Rollback(conversation_summary,
                         KeyDeleted(conversation_summary, result, source_type))
           ELSE WriteSummary(conversation_summary, result, source_type, source_rows)
      /\ conversation_category' =
           IF eff \in {"dicta", "summary"} THEN conversation_category
           ELSE IF eff = "category"
           THEN Rollback(conversation_category,
                         KeyDeleted(conversation_category, result, source_type))
           ELSE WriteCategories(conversation_category, result, source_type)
      /\ inbound' = DeleteOnSuccess(inbound, slot, success, delete_ok)
      /\ stats' = ResultCounters(stats, success, delete_ok, counted)
      /\ last_write' = [slot |-> slot, call_id |-> result.callId,
                        source_type |-> source_type, success |-> success]
      /\ first_try' = IF first_try[slot] = NoTry
                      THEN [first_try EXCEPT ![slot] = [source_type |-> source_type,
                                                        success |-> success]]
                      ELSE first_try
      /\ applied' =
           LET this == [result |-> result, source_type |-> source_type]
           IN  IF success THEN [applied EXCEPT ![result.callId] = this]
               ELSE IF eff = "dicta" \/ applied[result.callId] = this THEN applied
               ELSE [applied EXCEPT ![result.callId] = NoApplied]

\* the for loop of receive_ml_results (lines 1119-1150)
WriteAndDelete(slot, result, fault, delete_ok) ==
  WriteMessage(slot, result, fault, delete_ok, TRUE)

\* faults of one message: a statement of the write failed, or the write
\* returned True and delete_message raised
IngestFaults(result, fault, delete_ok) ==
  IF NormalizeSentiment(result).raises THEN 0
  ELSE IF fault # "none" THEN 1
  ELSE IF delete_ok THEN 0 ELSE 1

\* one pass of the for loop of receive_ml_results
HandleResult ==
  /\ pc = "results"
  /\ received # << >>
  /\ LET slot == Head(received)
         message == inbound[slot]
     IN  IF message.json_ok /\ message.messageType = MESSAGE_TYPES.ML_RESULT
         THEN \E fault \in WriteFaults, delete_ok \in BOOLEAN :
                /\ WriteAndDelete(slot, message.body, fault, delete_ok)
                /\ faults' = faults + IngestFaults(message.body, fault, delete_ok)
                /\ faults' <= MaxFaults
         ELSE UNCHANGED <<stats, pending_source_types, inbound, dicta_call_summary,
                          conversation_summary, conversation_category, last_write,
                          first_try, applied, faults>>
  /\ received' = Tail(received)
  /\ pc' = IF Tail(received) # << >> THEN "results" ELSE "sleep"
  /\ UNCHANGED <<source_rows, componentVars, src_idx, batch, cdc_processed_calls,
                 cdc_processing_status, error_log, outbound, last_dispatch, last_record>>

(***************************************************************************)
(* Environment: the ML service answers conversations it was sent; other    *)
(* producers put messages of other types or broken bodies on the queue.    *)
(* The process sees the queue only in receive_message, so a message that   *)
(* arrives during a cycle is taken to arrive right before the receive.     *)
(***************************************************************************)
SentIds == {outbound[i].MessageAttributes.callId : i \in DOMAIN outbound}

MLServicePublish ==
  /\ pc = "ingest"
  /\ \E slot \in MessageSlots :
       /\ inbound[slot].state = "absent"
       /\ \A m \in 1..(slot - 1) : inbound[m].state # "absent"
       /\ \E message \in InboundContents(SentIds) :
            inbound' = [inbound EXCEPT ![slot] = message]
  /\ UNCHANGED <<source_rows, componentVars, cdcVars, received, dicta_call_summary,
                 conversation_summary, conversation_category, last_write,
                 first_try, applied, faults>>

(***************************************************************************)
(* Specifications.                                                         *)
(*                                                                         *)
(* SpecCdc: the CDC loop over every content of the source tables, with an  *)
(* ML service that does not answer (receive_message returns no message).   *)
(* The ingestor writes none of the variables that collection, assembly and *)
(* dispatch read, so the outbound side behaves the same with answers.      *)
(*                                                                         *)
(* Spec: the whole process, outbound and inbound, over source tables that  *)
(* hold one complete conversation per source.                              *)
(***************************************************************************)
InitCdc ==
  /\ source_rows \in [Ids -> UNION {RowShapes(id) : id \in Ids}]
  /\ \A id \in Ids : source_rows[id] \in RowShapes(id)
  /\ InitProcess
  /\ ComponentsIdle

NextCdc ==
  \/ StartCycle
  \/ Collect
  \/ ProcessRecord
  \/ ReceiveMlResults

SpecCdc == InitCdc /\ [][NextCdc]_vars

Init ==
  /\ source_rows = [V1 |-> MkRows(11, <<"A", "C">>, <<TXT>>, <<1>>, <<1>>),
                    V2 |-> << >>,
                    S1 |-> MkRows(5, <<"C", "B">>, <<TXT>>, <<1>>, <<1, 2, 3>>)]
  /\ InitProcess
  /\ ComponentsIdle

Next ==
  \/ StartCycle
  \/ Collect
  \/ ProcessRecord
  \/ ReceiveMlResults
  \/ HandleResult
  \/ MLServicePublish

Spec == Init /\ [][Next]_vars

(***************************************************************************)
(* SpecText: the text helpers applied to one value each.                   *)
(***************************************************************************)
\* action_items_val = extract_action_items_text(..., max_length=500) (line 1266)
ExtractActionItems ==
  /\ text_call.fn = NULL
  /\ text_call' = [text_call EXCEPT
                     !.fn = "extract_action_items_text",
                     !.out = extract_action_items_text(text_call.value, MaxActionLength)]
  /\ UNCHANGED notText

\* products_val = clean_json_to_csv(...) (lines 1264 and 1267)
CleanJsonToCsv ==
  /\ text_call.fn = NULL
  /\ text_call' = [text_call EXCEPT
                     !.fn = "clean_json_to_csv",
                     !.out = clean_json_to_csv(text_call.value)]
  /\ UNCHANGED notText

InitText ==
  /\ source_rows = [id \in Ids |-> << >>]
  /\ InitProcess
  /\ text_call \in {[fn |-> NULL, value |-> v, out |-> << >>] : v \in TextInputs}
  /\ alert_history = << >>
  /\ evaluator = [e \in Evaluators |-> EvaluatorIdle]
  /\ alert_op = NoAlertOp
  /\ recommendations = InitialRecommendations
  /\ s3_objects = InitialObjects
  /\ notifications = << >>
  /\ mlq_op = NoMlqOp
  /\ bf_pc = "start"
  /\ phase = "BULK"
  /\ bf_batch = << >>
  /\ bf_processed = [id \in Ids |-> 0]
  /\ bf_outbound = [id \in Ids |-> 0]
  /\ bf_bulk_last = 0
  /\ bf_last = NoBackfillStep
  /\ eval_recs = << >>
  /\ eval_history = << >>
  /\ eval_last = NoEvaluation
  /\ historical = NoHistorical

NextText ==
  \/ ExtractActionItems
  \/ CleanJsonToCsv

SpecText == InitText /\ [][NextText]_vars

(***************************************************************************)
(* Alerts: routes/alert_evaluator.py and the history endpoints of          *)
(* routes/alerts.py, over a fixed ALERT_CONFIGURATIONS table.              *)
(***************************************************************************)
ALERT_CONFIGURATIONS ==
  [A1 |-> [is_enabled |-> 1, condition_operator |-> "gt", threshold_value |-> 5,
           severity |-> "HIGH"],
   A2 |-> [is_enabled |-> 1, condition_operator |-> "lt", threshold_value |-> 5,
           severity |-> "LOW"],
   A3 |-> [is_enabled |-> 0, condition_operator |-> "gte", threshold_value |-> 5,
           severity |-> "LOW"]]

\* the order in which the configurations query returns the rows
ConfigOrder == <<"A1", "A2", "A3">>

\* the values a metric query can return
MetricValues == {3, 8}

\* the callers of the history endpoints
DashboardUsers == {"Dashboard User"}

\* STATUS of a row inserted without a STATUS column: the column default of
\* the ALERT_HISTORY table
DefaultStatus == "ACTIVE"

\* SELECT ... FROM ALERT_CONFIGURATIONS WHERE IS_ENABLED = 1 (lines 266-280);
\* execute_query returns [] when the query fails
EnabledConfigs(query_ok) ==
  IF query_ok
  THEN SelectSeq(ConfigOrder, LAMBDA a : ALERT_CONFIGURATIONS[a].is_enabled = 1)
  ELSE << >>

\* evaluate_metric: result.get('value', 0) or 0, with {} for a failed query
evaluate_metric(query_ok, metric) == IF query_ok THEN metric ELSE 0

\* check_condition (lines 242-257)
check_condition(value, operator, threshold) ==
  CASE operator = "gt" -> value > threshold
    [] operator = "gte" -> value >= threshold
    [] operator = "lt" -> value < threshold
    [] operator = "lte" -> value <= threshold
    [] operator = "eq" -> value = threshold
    [] OTHER -> FALSE

\* the rows of a configuration in status ACTIVE
ActiveRows(history, alert_id) ==
  {h \in DOMAIN history : history[h].ALERT_ID = alert_id /\ history[h].STATUS = "ACTIVE"}

\* mutant of ExistingCount: the check never finds a row
ExistingCountZero(history, alert_id, query_ok) == 0

\* existing.get('count', 0) of the SELECT COUNT(*) ... STATUS = 'ACTIVE'
\* (lines 311-319); execute_single returns {} when the query fails
ExistingCount(history, alert_id, query_ok) ==
  IF query_ok THEN Cardinality(ActiveRows(history, alert_id)) ELSE 0

\* where a run goes after the configuration in work
NextConfig(run) ==
  IF Len(run.todo) > 1
  THEN [pc |-> "loop", todo |-> Tail(run.todo), value |-> 0, failed |-> FALSE]
  ELSE EvaluatorIdle

\* configs = execute_query(configs_query)
StartEvaluation(e) ==
  /\ evaluator[e].pc = "idle"
  /\ \E query_ok \in BOOLEAN :
       /\ faults' = IF query_ok THEN faults ELSE faults + 1
       /\ faults' <= MaxFaults
       /\ evaluator' = [evaluator EXCEPT ![e] =
            IF EnabledConfigs(query_ok) = << >> THEN EvaluatorIdle
            ELSE [pc |-> "loop", todo |-> EnabledConfigs(query_ok), value |-> 0,
                  failed |-> FALSE]]
  /\ alert_op' = [op |-> "evaluate", history_id |-> 0]
  /\ UNCHANGED <<notAlerts, alert_history>>

\* one pass of the for loop up to the check for an ACTIVE row (lines 283-319)
EvaluateConfig(e) ==
  /\ evaluator[e].pc = "loop"
  /\ LET alert_id == Head(evaluator[e].todo)
         config == ALERT_CONFIGURATIONS[alert_id]
     IN  \E metric \in MetricValues, metric_ok, existing_ok \in BOOLEAN :
           LET value == evaluate_metric(metric_ok, metric)
               triggered == check_condition(value, config.condition_operator,
                                            config.threshold_value)
               asked == triggered
           IN  /\ (~asked) => existing_ok
               /\ faults' = faults + (IF metric_ok THEN 0 ELSE 1)
                                   + (IF existing_ok THEN 0 ELSE 1)
               /\ faults' <= MaxFaults
               /\ evaluator' = [evaluator EXCEPT ![e] =
                    IF triggered /\ ExistingCount(alert_history, alert_id, existing_ok) = 0
                    THEN [pc |-> "insert", todo |-> evaluator[e].todo, value |-> value,
                          failed |-> ~(metric_ok /\ existing_ok)]
                    ELSE NextConfig(evaluator[e])]
               /\ alert_op' = [op |-> "evaluate", history_id |-> 0]
  /\ UNCHANGED <<notAlerts, alert_history>>

\* the row of INSERT INTO ALERT_HISTORY (lines 329-346)
NewAlertRow(alert_id, value) ==
  [ALERT_ID |-> alert_id, STATUS |-> DefaultStatus, METRIC_VALUE |-> value,
   THRESHOLD_VALUE |-> ALERT_CONFIGURATIONS[alert_id].threshold_value,
   SEVERITY |-> ALERT_CONFIGURATIONS[alert_id].severity,
   ACKNOWLEDGED_BY |-> NULL, RESOLVED_BY |-> NULL]

\* mutant of InsertAlert: the rows of the configuration are resolved first
InsertAlertResolvingOld(history, alert_id, value) ==
  Append([h \in DOMAIN history |->
            IF history[h].ALERT_ID = alert_id
            THEN [history[h] EXCEPT !.STATUS = "RESOLVED"]
            ELSE history[h]],
         NewAlertRow(alert_id, value))

\* cursor.execute(insert_query, ...); conn.commit() (lines 339-348)
InsertAlert(history, alert_id, value) == Append(history, NewAlertRow(alert_id, value))

\* the insert and commit (lines 321-356); an exception is caught and leaves
\* no row
CreateAlert(e) ==
  /\ evaluator[e].pc = "insert"
  /\ Len(alert_history) < MaxAlertRows
  /\ LET alert_id == Head(evaluator[e].todo)
     IN  \E insert_ok \in BOOLEAN :
           /\ faults' = IF insert_ok THEN faults ELSE faults + 1
           /\ faults' <= MaxFaults
           /\ alert_history' = IF insert_ok
                               THEN InsertAlert(alert_history, alert_id, evaluator[e].value)
                               ELSE alert_history
           /\ alert_op' = [op |-> "create", history_id |-> 0]
  /\ evaluator' = [evaluator EXCEPT ![e] = NextConfig(evaluator[e])]
  /\ UNCHANGED notAlerts

\* mutant of AcknowledgeRows: the status of the row is not looked at
AcknowledgeAnyStatus(history, history_id, acknowledged_by) ==
  [h \in DOMAIN history |->
     IF h = history_id
     THEN [history[h] EXCEPT !.STATUS = "ACKNOWLEDGED", !.ACKNOWLEDGED_BY = acknowledged_by]
     ELSE history[h]]

\* UPDATE ALERT_HISTORY SET STATUS = 'ACKNOWLEDGED' ... WHERE HISTORY_ID =
\* :history_id AND STATUS = 'ACTIVE' (alerts.py lines 294-301)
AcknowledgeRows(history, history_id, acknowledged_by) ==
  [h \in DOMAIN history |->
     IF h = history_id /\ history[h].STATUS = "ACTIVE"
     THEN [history[h] EXCEPT !.STATUS = "ACKNOWLEDGED", !.ACKNOWLEDGED_BY = acknowledged_by]
     ELSE history[h]]

\* UPDATE ALERT_HISTORY SET STATUS = 'RESOLVED' ... WHERE HISTORY_ID =
\* :history_id AND STATUS IN ('ACTIVE', 'ACKNOWLEDGED') (alerts.py lines 326-338)
ResolveRows(history, history_id, resolved_by) ==
  [h \in DOMAIN history |->
     IF h = history_id /\ history[h].STATUS \in {"ACTIVE", "ACKNOWLEDGED"}
     THEN [history[h] EXCEPT !.STATUS = "RESOLVED", !.RESOLVED_BY = resolved_by]
     ELSE history[h]]

\* POST /history/<history_id>/acknowledge
acknowledge_alert ==
  \E history_id \in 1..MaxAlertRows, acknowledged_by \in DashboardUsers, update_ok \in BOOLEAN :
     /\ faults' = IF update_ok THEN faults ELSE faults + 1
     /\ faults' <= MaxFaults
     /\ alert_history' = IF update_ok
                         THEN AcknowledgeRows(alert_history, history_id, acknowledged_by)
                         ELSE alert_history
     /\ alert_op' = [op |-> "acknowledge", history_id |-> history_id]
     /\ UNCHANGED <<notAlerts, evaluator>>

\* POST /history/<history_id>/resolve
resolve_alert ==
  \E history_id \in 1..MaxAlertRows, resolved_by \in DashboardUsers, update_ok \in BOOLEAN :
     /\ faults' = IF update_ok THEN faults ELSE faults + 1
     /\ faults' <= MaxFaults
     /\ alert_history' = IF update_ok
                         THEN ResolveRows(alert_history, history_id, resolved_by)
                         ELSE alert_history
     /\ alert_op' = [op |-> "resolve", history_id |-> history_id]
     /\ UNCHANGED <<notAlerts, evaluator>>

\* no evaluate_all_alerts call is in progress
AllIdle == \A e \in Evaluators : evaluator[e].pc = "idle"

\* an evaluator run that begins when no other run is in progress
RunEvaluation == \E e \in Evaluators : AllIdle /\ StartEvaluation(e)
StepEvaluation == \E e \in Evaluators : EvaluateConfig(e)
StepCreate == \E e \in Evaluators : CreateAlert(e)

InitAlerts ==
  /\ source_rows = [id \in Ids |-> << >>]
  /\ InitProcess
  /\ ComponentsIdle

\* SpecAlerts: evaluator runs one after another, with the operator's
\* acknowledge and resolve calls at any time
NextAlerts ==
  \/ RunEvaluation
  \/ StepEvaluation
  \/ StepCreate
  \/ acknowledge_alert
  \/ resolve_alert

SpecAlerts == InitAlerts /\ [][NextAlerts]_vars

\* the alert process (alert_evaluation_service.py main) and the endpoint
\* POST /evaluate (alerts.py evaluate_alerts) each call evaluate_all_alerts,
\* in processes of their own: a run begins whatever the other run does
StartAnyEvaluation == \E e \in Evaluators : StartEvaluation(e)

\* SpecAlertsConcurrent: evaluator runs that interleave
NextAlertsConcurrent ==
  \/ StartAnyEvaluation
  \/ StepEvaluation
  \/ StepCreate
  \/ acknowledge_alert
  \/ resolve_alert

SpecAlertsConcurrent == InitAlerts /\ [][NextAlertsConcurrent]_vars

(***************************************************************************)
(* The approval endpoints of routes/ml_quality.py.                         *)
(***************************************************************************)
\* the rec_id values of the requests: the stored rows and an unknown id
RequestIds == DOMAIN InitialRecommendations \cup {"R9"}
MlqUsers == {"dashboard_user"}

\* the types for which api_ml_approve reads and writes a config object
ObjectTypes == {"churn_keywords", "churn_threshold"}

\* mutant of PendingRec: the status of the row is not looked at
AnyRec(recs, rec_id, query_ok) ==
  query_ok /\ rec_id \in DOMAIN recs

\* rec = execute_single(SELECT ... WHERE RAWTOHEX(REC_ID) = :rec_id AND
\* STATUS = 'PENDING'): a row was found (lines 110-117)
PendingRec(recs, rec_id, query_ok) ==
  query_ok /\ rec_id \in DOMAIN recs /\ recs[rec_id].STATUS = "PENDING"

\* the config objects after the mutation of the type (lines 126-162)
MutatedObjects(objects, rec) ==
  CASE rec.REC_TYPE = "churn_keywords" ->
         [objects EXCEPT !.medium = @ \cup rec.keywords]
    [] rec.REC_TYPE = "churn_threshold" ->
         [objects EXCEPT !.threshold = rec.recommended_value]
    [] OTHER -> objects

\* the faults of one approve call: the SELECT, get_object, put_object, the
\* UPDATE
ApproveFaults == {"none", "select", "get", "put", "update"}

\* mutant of ApproveSteps: the row is updated although put_object failed
ApproveStepsIgnoringPut(found, rec_type, fault) ==
  IF ~found THEN [status |-> 404, gets |-> 0, puts |-> 0, written |-> FALSE, marked |-> FALSE]
  ELSE LET object == rec_type \in ObjectTypes
       IN  [status |-> IF fault \in {"get", "update"} THEN 500 ELSE 200,
            gets |-> IF object THEN 1 ELSE 0,
            puts |-> IF object /\ fault # "get" THEN 1 ELSE 0,
            written |-> object /\ fault \notin {"get", "put"},
            marked |-> fault \notin {"get", "update"}]

\* the calls api_ml_approve makes and its response (lines 116-183): the
\* number of get_object and put_object calls, whether the object was
\* written and whether the UPDATE was committed
ApproveSteps(found, rec_type, fault) ==
  IF ~found THEN [status |-> 404, gets |-> 0, puts |-> 0, written |-> FALSE, marked |-> FALSE]
  ELSE LET object == rec_type \in ObjectTypes
       IN  [status |-> IF fault = "none" THEN 200 ELSE 500,
            gets |-> IF object THEN 1 ELSE 0,
            puts |-> IF object /\ fault # "get" THEN 1 ELSE 0,
            written |-> object /\ fault \notin {"get", "put"},
            marked |-> fault = "none"]

\* UPDATE ML_CONFIG_RECOMMENDATIONS SET STATUS = 'APPROVED', APPROVED_BY =
\* :approver ... WHERE RAWTOHEX(REC_ID) = :rec_id (lines 167-171)
MarkApproved(recs, rec_id, approver) ==
  [r \in DOMAIN recs |->
     IF r = rec_id THEN [recs[r] EXCEPT !.STATUS = "APPROVED", !.APPROVED_BY = approver]
     ELSE recs[r]]

\* the last call was an approve of the id in which get_object or put_object
\* failed
FailedBefore(rec_id) ==
  mlq_op.op = "approve" /\ mlq_op.rec_id = rec_id /\ mlq_op.fault \in {"get", "put"}

\* POST /approve
api_ml_approve ==
  \E rec_id \in RequestIds, approver \in MlqUsers, fault \in ApproveFaults :
     LET found == PendingRec(recommendations, rec_id, fault # "select")
         rec_type == IF found THEN recommendations[rec_id].REC_TYPE ELSE NULL
         steps == ApproveSteps(found, rec_type, fault)
     IN  /\ fault \in {"get", "put"} => (found /\ rec_type \in ObjectTypes)
         /\ fault = "update" => found
         /\ faults' = IF fault = "none" THEN faults ELSE faults + 1
         /\ faults' <= MaxFaults
         /\ s3_objects' = IF steps.written
                          THEN MutatedObjects(s3_objects, recommendations[rec_id])
                          ELSE s3_objects
         /\ recommendations' = IF steps.marked
                               THEN MarkApproved(recommendations, rec_id, approver)
                               ELSE recommendations
         /\ mlq_op' = [op |-> "approve", rec_id |-> rec_id, status |-> steps.status,
                       gets |-> steps.gets, puts |-> steps.puts,
                       retried |-> FailedBefore(rec_id), fault |-> fault]
         /\ UNCHANGED <<notMlq, notifications>>

\* mutant of Publish: the message is sent twice
PublishTwice(queue, triggered_by) ==
  queue \o <<[action |-> "reload_configs", triggered_by |-> triggered_by],
             [action |-> "reload_configs", triggered_by |-> triggered_by]>>

\* sqs.send_message(QueueUrl=SQS_QUEUE, MessageBody=...) (lines 199-206)
Publish(queue, triggered_by) ==
  Append(queue, [action |-> "reload_configs", triggered_by |-> triggered_by])

\* POST /apply-to-ml
api_ml_apply ==
  /\ Len(notifications) < MaxNotifications
  /\ \E triggered_by \in MlqUsers, send_ok \in BOOLEAN :
       /\ faults' = IF send_ok THEN faults ELSE faults + 1
       /\ faults' <= MaxFaults
       /\ notifications' = IF send_ok THEN Publish(notifications, triggered_by)
                           ELSE notifications
       /\ mlq_op' = [op |-> "apply", rec_id |-> NULL, status |-> IF send_ok THEN 200 ELSE 500,
                     gets |-> 0, puts |-> 0, retried |-> FALSE,
                     fault |-> IF send_ok THEN "none" ELSE "send"]
  /\ UNCHANGED <<notMlq, recommendations, s3_objects>>

\* UPDATE ML_CONFIG_RECOMMENDATIONS SET STATUS = 'REJECTED', NOTES = :reason
\* WHERE RAWTOHEX(REC_ID) = :rec_id (lines 234-238)
MarkRejected(recs, rec_id, rejected_by, reason) ==
  [r \in DOMAIN recs |->
     IF r = rec_id
     THEN [recs[r] EXCEPT !.STATUS = "REJECTED",
                          !.NOTES = [rejected_by |-> rejected_by, reason |-> reason]]
     ELSE recs[r]]

\* the reasons a reject request carries
Reasons == {"not useful"}

\* POST /reject
api_ml_reject ==
  \E rec_id \in RequestIds, rejected_by \in MlqUsers, reason \in Reasons,
     update_ok \in BOOLEAN :
     /\ faults' = IF update_ok THEN faults ELSE faults + 1
     /\ faults' <= MaxFaults
     /\ recommendations' = IF update_ok
                           THEN MarkRejected(recommendations, rec_id, rejected_by, reason)
                           ELSE recommendations
     /\ mlq_op' = [op |-> "reject", rec_id |-> rec_id, status |-> IF update_ok THEN 200 ELSE 500,
                   gets |-> 0, puts |-> 0, retried |-> FALSE,
                   fault |-> IF update_ok THEN "none" ELSE "update"]
     /\ UNCHANGED <<notMlq, s3_objects, notifications>>

InitMlq ==
  /\ source_rows = [id \in Ids |-> << >>]
  /\ InitProcess
  /\ ComponentsIdle

NextMlq ==
  \/ api_ml_approve
  \/ api_ml_apply
  \/ api_ml_reject

SpecMlq == InitMlq /\ [][NextMlq]_vars

(***************************************************************************)
(* The historical backfill (backfill_service.py): a one-shot run over      *)
(* VERINT_TEXT_ANALYSIS, a bulk phase and then a delta phase.              *)
(*                                                                         *)
(* SYSDATE does not move during a run.  A CALL_TIME or TEXT_TIME value is  *)
(* a position relative to it:                                              *)
(*   0  not after SYSDATE - days_back (90 days)                            *)
(*   1  inside the 90 days, not after SYSDATE - 1200/1440                  *)
(*   2  after SYSDATE - 1200/1440, not after SYSDATE - 500/1440            *)
(*   3  after SYSDATE - 500/1440                                           *)
(* The counters total_processed, total_sent and total_skipped are only     *)
(* logged and are not carried.                                             *)
(***************************************************************************)
\* SYSDATE - :days_back, SYSDATE - 1200/1440 and SYSDATE - 500/1440
BulkWindowStart == 0
DeltaMarkedStart == 1
DeltaWindowStart == 2

\* stand for self.bulk_batch_size (1000) and self.delta_batch_size (50)
BulkBatchSize == 2
DeltaBatchSize == 1
\* self.min_segments
BackfillMinSegments == 16

\* the contents VERINT_TEXT_ANALYSIS can have for one id in a backfill run
BackfillShapes(id) ==
  CASE id = "V1" ->
         { MkRows(16, <<"A", "C">>, <<TXT>>, <<1>>, <<1>>),          \* complete call
           MkRows(16, <<"A", "C">>, <<TXT>>, <<1, 3>>, <<1, 3>>),    \* fragments at two times
           MkRows(15, <<"A", "C">>, <<TXT>>, <<1, 3>>, <<1, 3>>),    \* one segment short
           MkRows(16, <<"A">>, <<TXT>>, <<2>>, <<2>>),               \* no customer channel
           MkRows(16, <<"A", "C">>, <<BLANK, NULL>>, <<3>>, <<3>>) } \* no text at all
    [] id = "V2" ->
         { << >>,                                                    \* the id is not in the table
           MkRows(16, <<"C", "A">>, <<TXT>>, <<2>>, <<2>>),
           MkRows(16, <<"C", "A">>, <<TXT>>, <<3>>, <<3>>),
           MkRows(17, <<"C", "A", NULL>>, <<TXT, BLANK>>, <<2, 3>>, <<2, 3>>),
           MkRows(12, <<"C", "A">>, <<TXT>>, <<1>>, <<1>>),          \* short
           MkRows(16, <<"C", "A">>, <<TXT>>, <<0>>, <<0>>) }         \* older than 90 days
    [] OTHER -> { << >> }

\* CALL_ID NOT IN (SELECT CALL_ID FROM CDC_PROCESSED_CALLS WHERE TEXT_TIME >
\* start): 0 for the ids the subquery does not return
InSubquery(processed, start) ==
  [id \in Ids |-> IF processed[id] > start THEN 1 ELSE 0]

\* the rows of a collection query as the list of dicts the collector builds
AsCalls(rows) ==
  [i \in DOMAIN rows |-> [call_id |-> rows[i][1], call_time |-> rows[i][2]]]

\* the rows the bulk query selects before ORDER BY and FETCH FIRST
BulkCandidates(table, processed) ==
  { p \in CandidatePairs("verint", table, InSubquery(processed, BulkWindowStart)) :
      p[2] > BulkWindowStart }

\* the rows the delta query selects before ORDER BY and FETCH FIRST
DeltaCandidates(table, processed) ==
  { p \in CandidatePairs("verint", table, InSubquery(processed, DeltaMarkedStart)) :
      p[2] > DeltaWindowStart }

\* the batches collect_bulk_calls can return; [] when the query raises
collect_bulk_calls(table, processed, query_ok) ==
  IF ~query_ok THEN { << >> }
  ELSE { AsCalls(rows) : rows \in FetchFirst(BulkCandidates(table, processed), BulkBatchSize) }

\* the batches collect_delta_calls can return; [] when the query raises
collect_delta_calls(table, processed, query_ok) ==
  IF ~query_ok THEN { << >> }
  ELSE { AsCalls(rows) : rows \in FetchFirst(DeltaCandidates(table, processed), DeltaBatchSize) }

\* ORDER BY CALL_TIME ASC of the fragment query: rows of equal time keep
\* their stored order
OrderByCallTime(s) ==
  LET pos(i) == 1 + Cardinality({j \in DOMAIN s :
                                   \/ s[j].T < s[i].T
                                   \/ (s[j].T = s[i].T /\ j < i)})
  IN  [k \in DOMAIN s |-> s[CHOOSE i \in DOMAIN s : pos(i) = k]]

\* assemble_conversation from "if len(rows) < self.min_segments" on: the
\* document or None
AssembleRows(call_id, rows) ==
  IF Len(rows) < BackfillMinSegments THEN NoConversation
  ELSE IF ~({"A", "C"} \subseteq Channels(rows)) THEN NoConversation
  ELSE IF BuildMessages(rows) = << >> THEN NoConversation
  ELSE [type |-> "CONVERSATION_ASSEMBLY", callId |-> call_id,
        callTime |-> rows[1].T, messages |-> BuildMessages(rows),
        messageCount |-> Len(BuildMessages(rows)), source |-> "backfill-service"]

\* BackfillService.assemble_conversation: rows = cursor.fetchall() of the
\* fragment query, then the checks
assemble_conversation(call_id, table) ==
  CHOOSE doc \in {AssembleRows(call_id, rows) :
                    rows \in {OrderByCallTime(table[call_id])}} : TRUE

\* MERGE INTO CDC_PROCESSED_CALLS ... WHEN NOT MATCHED THEN INSERT (CALL_ID,
\* TEXT_TIME, PROCESSED_AT): a call that has a row keeps it
mark_processed(processed, call_id, call_time) ==
  IF processed[call_id] # 0 THEN processed
  ELSE [processed EXCEPT ![call_id] = call_time]

\* one more message of the call on the outbound queue
CountSend(count, call_id) ==
  [count EXCEPT ![call_id] = IF @ < MaxSendCount THEN @ + 1 ELSE @]

\* one pass of the for loop of process_batch.  assemble_ok and mark_ok say
\* whether the fragment query and the MERGE run without a database error,
\* send_ok whether send_message returns
process_batch ==
  /\ bf_pc \in {"bulk_batch", "delta_batch"}
  /\ bf_batch # << >>
  /\ \E assemble_ok, send_ok, mark_ok \in BOOLEAN :
       LET call == Head(bf_batch)
           doc == IF assemble_ok THEN assemble_conversation(call.call_id, source_rows)
                  ELSE NoConversation
           conversation == doc # NoConversation
           sent == conversation /\ send_ok
           marks == ~conversation \/ sent
           marked == marks /\ mark_ok
       IN  /\ ~send_ok => conversation
           /\ ~mark_ok => marks
           /\ faults' = faults + (IF assemble_ok THEN 0 ELSE 1) + (IF mark_ok THEN 0 ELSE 1)
           /\ faults' <= MaxFaults
           /\ bf_outbound' = IF sent THEN CountSend(bf_outbound, call.call_id)
                             ELSE bf_outbound
           /\ bf_processed' = IF marked
                              THEN mark_processed(bf_processed, call.call_id, call.call_time)
                              ELSE bf_processed
           /\ bf_batch' = Tail(bf_batch)
           /\ bf_pc' = IF Tail(bf_batch) # << >> THEN bf_pc
                       ELSE IF bf_pc = "bulk_batch" THEN "bulk" ELSE "delta"
           /\ bf_last' = [op |-> "process", call_id |-> call.call_id,
                          call_time |-> call.call_time,
                          rejected |-> assemble_ok /\ ~conversation,
                          conversation |-> conversation, sent |-> sent,
                          marked |-> marked, query_ok |-> assemble_ok]
  /\ UNCHANGED <<notBackfill, phase, bf_bulk_last>>

\* run, lines 356-363: connect_oracle and connect_sqs; the run ends when one
\* of them fails
run_connect ==
  /\ bf_pc = "start"
  /\ \E connected \in BOOLEAN :
       /\ faults' = IF connected THEN faults ELSE faults + 1
       /\ faults' <= MaxFaults
       /\ bf_pc' = IF connected THEN "bulk" ELSE "done"
       /\ bf_last' = [NoBackfillStep EXCEPT !.op = "connect", !.query_ok = connected]
  /\ UNCHANGED <<notBackfill, phase, bf_batch, bf_processed, bf_outbound, bf_bulk_last>>

\* run, lines 373-385: one pass of the while loop of the bulk phase up to
\* process_batch; an empty batch ends the phase and sets self.phase
run_bulk ==
  /\ bf_pc = "bulk"
  /\ phase = "BULK"
  /\ \E query_ok \in BOOLEAN :
       \E bulk_calls \in collect_bulk_calls(source_rows, bf_processed, query_ok) :
          /\ faults' = IF query_ok THEN faults ELSE faults + 1
          /\ faults' <= MaxFaults
          /\ IF bulk_calls = << >>
             THEN /\ phase' = "DELTA"
                  /\ bf_pc' = "delta"
                  /\ UNCHANGED <<bf_batch, bf_bulk_last>>
             ELSE /\ bf_batch' = bulk_calls
                  /\ bf_pc' = "bulk_batch"
                  /\ bf_bulk_last' = bulk_calls[Len(bulk_calls)].call_time
                  /\ UNCHANGED phase
          /\ bf_last' = [NoBackfillStep EXCEPT !.op = "bulk", !.query_ok = query_ok]
  /\ UNCHANGED <<notBackfill, bf_processed, bf_outbound>>

\* run, lines 393-404: one pass of the while loop of the delta phase up to
\* process_batch; an empty batch ends the run
run_delta ==
  /\ bf_pc = "delta"
  /\ phase = "DELTA"
  /\ \E query_ok \in BOOLEAN :
       \E calls \in collect_delta_calls(source_rows, bf_processed, query_ok) :
          /\ faults' = IF query_ok THEN faults ELSE faults + 1
          /\ faults' <= MaxFaults
          /\ IF calls = << >>
             THEN /\ bf_pc' = "done"
                  /\ UNCHANGED bf_batch
             ELSE /\ bf_batch' = calls
                  /\ bf_pc' = "delta_batch"
          /\ bf_last' = [NoBackfillStep EXCEPT !.op = "delta", !.query_ok = query_ok]
  /\ UNCHANGED <<notBackfill, phase, bf_processed, bf_outbound, bf_bulk_last>>

InitBackfill ==
  /\ source_rows \in [Ids -> UNION {BackfillShapes(id) : id \in Ids}]
  /\ \A id \in Ids : source_rows[id] \in BackfillShapes(id)
  /\ InitProcess
  /\ ComponentsIdle

NextBackfill ==
  \/ run_connect
  \/ run_bulk
  \/ process_batch
  \/ run_delta

SpecBackfill == InitBackfill /\ [][NextBackfill]_vars

\* the driver of the backfill keeps running until run returns
LiveBackfill == SpecBackfill /\ WF_vars(NextBackfill)

(***************************************************************************)
(* The entry point of cdc_service.py: startup, the main loop of            *)
(* run_forever and how it ends.  There is no signal handler: the shutdown  *)
(* signal is the KeyboardInterrupt that Python raises in the statement     *)
(* that is running.  It is a BaseException, so no "except Exception" of    *)
(* the cycle catches it and it reaches the handler of run_forever.         *)
(***************************************************************************)
\* the tables that exist when the process starts: all, all but one, none
InitialTables == {REQUIRED_TABLES, REQUIRED_TABLES \ {"CDC_PROCESSED_CALLS"}, {}}

\* validate_tables: all_valid starts True and the branch of a missing
\* required table assigns True again (line 372); missing source tables
\* only warn
validate_tables(existing) ==
  LET missing == REQUIRED_TABLES \ existing
  IN  IF missing # {} THEN TRUE ELSE TRUE

\* create_tables: CREATE TABLE for each required table that is missing,
\* each in its own try; created: the statements that succeeded
create_tables(existing, created) == existing \cup (created \cap REQUIRED_TABLES)

\* run_forever up to self.is_running = True: a connection that fails
\* returns, as does a second validation that fails
Startup ==
  /\ run_pc = "start"
  /\ \E oracle_ok, sqs_ok \in BOOLEAN, created \in SUBSET (REQUIRED_TABLES \ tables) :
       LET connected == oracle_ok /\ sqs_ok
           valid_first == validate_tables(tables)
           after == IF connected /\ ~valid_first THEN create_tables(tables, created)
                    ELSE tables
           valid == valid_first \/ validate_tables(after)
       IN  /\ oracle_ok \/ sqs_ok
           /\ (~connected \/ valid_first) => created = {}
           /\ faults' = IF connected THEN faults ELSE faults + 1
           /\ tables' = after
           /\ is_running' = (connected /\ valid)
           /\ run_pc' = IF connected /\ valid THEN "loop" ELSE "returned"
           /\ run_last' = [event |-> "startup", point |-> NULL, record_id |-> NULL,
                           cycle |-> 0]
  /\ UNCHANGED <<pipelineVars, textVars, alertVars, mlqVars, backfillVars, evalVars, historical>>

\* where the KeyboardInterrupt arrives: outside process_batch_for_source,
\* or for the id in work while it is assembled, right after send_message
\* returned, or right after mark_call_processed_for_source committed
InterruptPoints == {"idle", "assembling", "sent", "marked"}

\* except KeyboardInterrupt: self.is_running = False (lines 1830-1832),
\* the loop ends and the connection is closed; what the interrupted
\* statement had not done yet is not done
Interrupt ==
  /\ run_pc = "loop"
  /\ is_running
  /\ \E point \in InterruptPoints :
       LET in_work == pc = "batch" /\ batch # << >>
           source_id == SourceOrder[src_idx]
           record_id == Head(batch)
           conversation == assemble_conversation_for_source(record_id, source_id, source_rows)
           message_id == Len(outbound) + 1
       IN  /\ point # "idle" => in_work
           /\ point \in {"sent", "marked"} => conversation.type # NULL
           /\ outbound' = IF point \in {"sent", "marked"}
                          THEN Append(outbound, OutboundMessage(conversation, source_id))
                          ELSE outbound
           /\ pending_source_types' =
                IF point = "marked"
                THEN [pending_source_types EXCEPT
                        ![record_id] = TABLE_SOURCES[source_id].dest_source_type]
                ELSE pending_source_types
           /\ cdc_processed_calls' =
                IF point = "marked"
                THEN mark_call_processed_for_source(cdc_processed_calls, record_id,
                                                    message_id, TRUE)
                ELSE cdc_processed_calls
           /\ run_last' = [event |-> "interrupt", point |-> point,
                           record_id |-> IF point = "idle" THEN NULL ELSE record_id,
                           cycle |-> stats.cycles_completed]
  /\ is_running' = FALSE
  /\ run_pc' = "stopped"
  /\ pc' = "sleep"
  /\ batch' = << >>
  /\ received' = << >>
  /\ UNCHANGED <<source_rows, src_idx, stats, cdc_processing_status, error_log,
                 last_dispatch, last_record, inbound, dicta_call_summary,
                 conversation_summary, conversation_category, last_write, first_try,
                 applied, faults, tables, textVars, alertVars, mlqVars, backfillVars, evalVars, historical>>

\* mutant of MainLoopError: the exception ends the loop
MainLoopErrorFatal ==
  /\ run_pc = "loop"
  /\ is_running
  /\ pc \in {"collect", "batch"}
  /\ faults < MaxFaults
  /\ faults' = faults + 1
  /\ pc' = "sleep"
  /\ batch' = << >>
  /\ is_running' = FALSE
  /\ run_pc' = "stopped"
  /\ run_last' = [event |-> "error", point |-> pc, record_id |-> NULL,
                  cycle |-> stats.cycles_completed]
  /\ UNCHANGED <<source_rows, src_idx, stats, pending_source_types, cdc_processed_calls,
                 cdc_processing_status, error_log, outbound, last_dispatch, last_record,
                 ingestVars, tables, textVars, alertVars, mlqVars, backfillVars, evalVars, historical>>

\* except Exception of run_forever (lines 1834-1838): the connection to the
\* database is lost, self.oracle_conn.cursor() raises outside the try of
\* the collector, or of the assembler and then of log_error; the cycle is
\* abandoned, the loop sleeps 30 seconds and goes on
MainLoopError ==
  /\ run_pc = "loop"
  /\ is_running
  /\ pc \in {"collect", "batch"}
  /\ faults < MaxFaults
  /\ faults' = faults + 1
  /\ pc' = "sleep"
  /\ batch' = << >>
  /\ run_last' = [event |-> "error", point |-> pc, record_id |-> NULL,
                  cycle |-> stats.cycles_completed]
  /\ UNCHANGED <<source_rows, src_idx, stats, pending_source_types, cdc_processed_calls,
                 cdc_processing_status, error_log, outbound, last_dispatch, last_record,
                 ingestVars, tables, is_running, run_pc,
                 textVars, alertVars, mlqVars, backfillVars, evalVars, historical>>

\* SpecRun: the process from its start; the cycles of a process that runs
\* without its tables are not followed
InitRun ==
  /\ source_rows \in [Ids -> UNION {RowShapes(id) : id \in Ids}]
  /\ \A id \in Ids : source_rows[id] \in RowShapes(id)
  /\ Constructed
  /\ ComponentsIdle
  /\ run_pc = "start"
  /\ is_running = FALSE
  /\ tables \in InitialTables
  /\ run_last = NoRunEvent

NextRun ==
  \/ Startup
  \/ tables = REQUIRED_TABLES /\ NextCdc
  \/ Interrupt
  \/ MainLoopError

SpecRun == InitRun /\ [][NextRun]_vars

(***************************************************************************)
(* The flush mode of the entry point: python cdc_service.py flush_sqs      *)
(* connects and calls flush_all_sqs_to_db() with its default arguments.    *)
(* The receive counter of the exploration is kept in run_last.cycle.       *)
(***************************************************************************)
\* the default of the parameter continuous, which __main__ does not override
continuous == TRUE

\* one receive_message call of the inner while loop: no message ends the
\* inner loop, and then the cycle: one-time mode breaks, continuous mode
\* sleeps poll_interval seconds; a call that raises goes to the handler
\* of the cycle, which does the same
FlushReceive ==
  /\ run_pc = "flush"
  /\ received = << >>
  /\ run_last.cycle < MaxReceives
  /\ \E receive_ok \in BOOLEAN,
        got \in SUBSET {m \in MessageSlots : inbound[m].state = "visible"} :
       /\ Cardinality(got) <= 10
       /\ ~receive_ok => got = {}
       /\ faults' = IF receive_ok THEN faults ELSE faults + 1
       /\ faults' <= MaxFaults
       /\ received' = [i \in 1..Cardinality(got) |->
                         CHOOSE m \in got : Cardinality({x \in got : x < m}) = i - 1]
       /\ run_pc' = IF got # {} THEN "flush"
                    ELSE IF continuous THEN "flush_sleep" ELSE "stopped"
       /\ run_last' = [event |-> IF ~receive_ok THEN "receive_error"
                                 ELSE IF got = {} THEN "empty_receive" ELSE "receive",
                       point |-> NULL, record_id |-> NULL, cycle |-> run_last.cycle + 1]
  /\ UNCHANGED <<source_rows, cdcVars, inbound, dicta_call_summary, conversation_summary,
                 conversation_category, last_write, first_try, applied, is_running,
                 tables, textVars, alertVars, mlqVars, backfillVars, evalVars, historical>>

\* one pass of the for loop over the messages (lines 1603-1628)
FlushMessage ==
  /\ run_pc = "flush"
  /\ received # << >>
  /\ LET slot == Head(received)
         message == inbound[slot]
     IN  IF message.json_ok /\ message.messageType = MESSAGE_TYPES.ML_RESULT
         THEN \E fault \in WriteFaults, delete_ok \in BOOLEAN :
                /\ WriteMessage(slot, message.body, fault, delete_ok, FALSE)
                /\ faults' = faults + IngestFaults(message.body, fault, delete_ok)
                /\ faults' <= MaxFaults
         ELSE UNCHANGED <<stats, pending_source_types, inbound, dicta_call_summary,
                          conversation_summary, conversation_category, last_write,
                          first_try, applied, faults>>
  /\ received' = Tail(received)
  /\ UNCHANGED <<source_rows, componentVars, pc, src_idx, batch, cdc_processed_calls,
                 cdc_processing_status, error_log, outbound, last_dispatch, last_record>>

\* time.sleep(poll_interval) returns and the next cycle starts
FlushWake ==
  /\ run_pc = "flush_sleep"
  /\ run_pc' = "flush"
  /\ UNCHANGED <<pipelineVars, faults, is_running, tables, run_last,
                 textVars, alertVars, mlqVars, backfillVars, evalVars, historical>>

\* except KeyboardInterrupt: is_running = False (lines 1641-1643)
FlushInterrupt ==
  /\ run_pc \in {"flush", "flush_sleep"}
  /\ run_pc' = "stopped"
  /\ received' = << >>
  /\ run_last' = [run_last EXCEPT !.event = "interrupt"]
  /\ UNCHANGED <<source_rows, cdcVars, inbound, dicta_call_summary, conversation_summary,
                 conversation_category, last_write, first_try, applied, faults,
                 is_running, tables, textVars, alertVars, mlqVars, backfillVars, evalVars, historical>>

\* the ML service answers conversations that an earlier process sent;
\* other producers put broken bodies and messages of other types
FlushArrival ==
  /\ run_pc \in {"flush", "flush_sleep"}
  /\ received = << >>
  /\ \E slot \in MessageSlots :
       /\ inbound[slot].state = "absent"
       /\ \A m \in 1..(slot - 1) : inbound[m].state # "absent"
       /\ \E message \in InboundContents({"V1", "S1"}) :
            inbound' = [inbound EXCEPT ![slot] = message]
  /\ UNCHANGED <<source_rows, componentVars, cdcVars, received, dicta_call_summary,
                 conversation_summary, conversation_category, last_write,
                 first_try, applied, faults>>

\* SpecFlush: python cdc_service.py flush_sqs
InitFlush ==
  /\ source_rows = [V1 |-> MkRows(11, <<"A", "C">>, <<TXT>>, <<1>>, <<1>>),
                    V2 |-> << >>,
                    S1 |-> MkRows(5, <<"C", "B">>, <<TXT>>, <<1>>, <<1, 2, 3>>)]
  /\ Constructed
  /\ ComponentsIdle
  /\ run_pc = "flush"
  /\ is_running = FALSE
  /\ tables = REQUIRED_TABLES
  /\ run_last = NoRunEvent

NextFlush ==
  \/ FlushArrival
  \/ FlushReceive
  \/ FlushMessage
  \/ FlushWake
  \/ FlushInterrupt

SpecFlush == InitFlush /\ [][NextFlush]_vars

(***************************************************************************)
(* The weekly evaluation (evaluation_service.py).  A churned subscriber is *)
(* a row of collect_churned_customers: whether MAX(CHURN_SCORE) is not     *)
(* NULL, and its value.  A division of two counts is kept as a ratio and   *)
(* compared by cross multiplication.                                       *)
(***************************************************************************)
high_risk_threshold == 70
medium_risk_threshold == 40

Customer(scored, score) == [scored |-> scored, max_churn_score |-> score]
\* no score, a score just under and one at the medium threshold, one at the
\* high threshold
Customers == {Customer(FALSE, 0), Customer(TRUE, 39), Customer(TRUE, 40), Customer(TRUE, 70)}
ChurnedData == UNION {[1..n -> Customers] : n \in 0..MaxChurned}

\* a / b < p / q for counts a and positive b, p, q
RatioBelow(r, p, q) == r.num * q < p * r.den

CountOf(seq, Test(_)) == Cardinality({i \in DOMAIN seq : Test(seq[i])})

\* the counts and ratios of evaluate_churn_predictions (lines 264-298) for a
\* list that is not empty, with the two thresholds as parameters
ChurnMetrics(churned_data, high, medium) ==
  LET with_score == CountOf(churned_data, LAMBDA c : c.scored)
      without_score == CountOf(churned_data, LAMBDA c : ~c.scored)
      high_risk ==
        CountOf(churned_data, LAMBDA c : c.scored /\ c.max_churn_score >= high)
      medium_plus_risk ==
        CountOf(churned_data, LAMBDA c : c.scored /\ c.max_churn_score >= medium)
      recall_high == IF with_score > 0 THEN Ratio(high_risk, with_score)
                     ELSE Ratio(0, 1)
      recall_medium == IF with_score > 0 THEN Ratio(medium_plus_risk, with_score)
                       ELSE Ratio(0, 1)
  IN  [total_churned |-> Len(churned_data),
       with_score |-> with_score,
       without_score |-> without_score,
       high_risk_caught |-> high_risk,
       medium_plus_caught |-> medium_plus_risk,
       recall_high |-> recall_high,
       recall_medium |-> recall_medium,
       recall |-> recall_medium,
       coverage |-> Ratio(with_score, Len(churned_data))]

\* mutant of evaluate_churn_predictions: the two thresholds change places
evaluate_with_thresholds_swapped(churned_data) ==
  ChurnMetrics(churned_data, medium_risk_threshold, high_risk_threshold)

\* evaluate_churn_predictions for a list that is not empty
evaluate_churn_predictions(churned_data) ==
  ChurnMetrics(churned_data, high_risk_threshold, medium_risk_threshold)

\* get_missed_churners: the score is NULL or below the medium threshold
get_missed_churners(churned_data) ==
  SelectSeq(churned_data,
            LAMBDA c : ~c.scored \/ c.max_churn_score < medium_risk_threshold)

\* a row of ML_CONFIG_RECOMMENDATIONS as store_recommendations inserts it
Recommendation(type, value) ==
  [REC_TYPE |-> type, recommended_value |-> value, STATUS |-> "PENDING"]

\* mutant of generate_recommendations: a recall of one half is too low as well
generate_recommendations_at_half(metrics, keywords) ==
  (IF ~RatioBelow(Ratio(1, 2), metrics.recall.num, metrics.recall.den)
   THEN <<Recommendation("churn_threshold", medium_risk_threshold)>> ELSE << >>)
  \o (IF keywords THEN <<Recommendation("churn_keywords", 0)>> ELSE << >>)
  \o (IF RatioBelow(metrics.coverage, 4, 5)
      THEN <<Recommendation("pipeline_coverage", 0)>> ELSE << >>)

\* generate_recommendations: recall < 0.5, keywords found in the transcripts
\* of the missed churners, coverage < 0.8
generate_recommendations(metrics, keywords) ==
  (IF RatioBelow(metrics.recall, 1, 2)
   THEN <<Recommendation("churn_threshold", medium_risk_threshold)>> ELSE << >>)
  \o (IF keywords THEN <<Recommendation("churn_keywords", 0)>> ELSE << >>)
  \o (IF RatioBelow(metrics.coverage, 4, 5)
      THEN <<Recommendation("pipeline_coverage", 0)>> ELSE << >>)

\* analyze_classification_feedback: one recommendation when the feedback
\* table holds a correction made three times or more
analyze_classification_feedback(feedback) ==
  IF feedback THEN <<Recommendation("classification_fix", 0)>> ELSE << >>

\* store_recommendations: one INSERT per recommendation and one commit; an
\* exception is logged and nothing is committed
store_recommendations(table, recs, store_ok) ==
  IF store_ok THEN table \o recs ELSE table

\* store_evaluation_history(results['metrics']): recs_count is
\* len(metrics.get('recommendations', [])), and the metrics dict has the
\* keys total_churned and churn only
store_evaluation_history(table, metrics, history_ok) ==
  IF history_ok
  THEN Append(table, [CHURNED_COUNT |-> metrics.total_churned,
                      WITH_SCORE_COUNT |-> metrics.with_score,
                      RECALL_RATE |-> metrics.recall,
                      COVERAGE_RATE |-> metrics.coverage,
                      RECOMMENDATIONS_GENERATED |-> 0])
  ELSE table

\* one run of run_weekly_evaluation; query_ok false: execute_query catches
\* the error and returns no row
run_weekly_evaluation ==
  /\ eval_last.run < MaxRuns
  /\ \E data \in ChurnedData, query_ok, keywords, feedback, store_ok, feedback_ok,
        history_ok \in BOOLEAN :
       LET churned_data == IF query_ok THEN data ELSE << >>
           evaluated == churned_data # << >>
           churn_metrics == evaluate_churn_predictions(churned_data)
           missed_churners == get_missed_churners(churned_data)
           generated == generate_recommendations(churn_metrics, keywords)
           feedback_analysis == analyze_classification_feedback(feedback)
           stored == store_recommendations(eval_recs, generated, store_ok)
       IN  /\ ~query_ok => data = << >>
           /\ keywords => (evaluated /\ missed_churners # << >>)
           /\ ~evaluated => (~keywords /\ ~feedback)
           /\ ~store_ok => (evaluated /\ generated # << >>)
           /\ ~feedback_ok => feedback
           /\ ~history_ok => evaluated
           /\ faults' = faults + Cardinality({ok \in {<<1, query_ok>>, <<2, store_ok>>,
                                                      <<3, feedback_ok>>, <<4, history_ok>>} :
                                                ~ok[2]})
           /\ faults' <= MaxFaults
           /\ eval_recs' =
                IF evaluated
                THEN store_recommendations(stored, feedback_analysis, feedback_ok)
                ELSE eval_recs
           /\ eval_history' =
                IF evaluated
                THEN store_evaluation_history(eval_history, churn_metrics, history_ok)
                ELSE eval_history
           /\ eval_last' = [run |-> eval_last.run + 1,
                            evaluated |-> evaluated,
                            metrics |-> IF evaluated THEN churn_metrics ELSE NoMetrics,
                            stored |-> evaluated /\ store_ok,
                            feedback_stored |-> evaluated /\ feedback_ok]
  /\ UNCHANGED <<pipelineVars, textVars, alertVars, mlqVars, backfillVars, runVars, historical>>

\* SpecEval: the cron job runs the evaluation week after week
InitEval ==
  /\ source_rows = [id \in Ids |-> << >>]
  /\ InitProcess
  /\ ComponentsIdle

NextEval == run_weekly_evaluation

SpecEval == InitEval /\ [][NextEval]_vars

(***************************************************************************)
(* SpecIngest: the ingestor alone, over results whose two label lists are  *)
(* both present, or hold no label at all.                                  *)
(***************************************************************************)
\* results of V1: classification.all and classifications differ, the only
\* label is the empty string, and the example of the ingest scenario
LabelResults ==
  { Result("V1", NULL, SentScalar(JInt(3)),
           ClassDict("BILLING", <<"BILLING", "OFFER">>), <<"CHURN", "BILLING">>, 10),
    Result("V1", NULL, SentScalar(JInt(3)), ClassAbsent, <<"">>, 10),
    Result("V1", NULL, SentScalar(JStr(" Positive ")),
           ClassDict("BILLING", <<"BILLING", "OFFER">>), << >>, 82) }

\* the ML service puts one of the results on the inbound queue
IngestArrival ==
  /\ run_pc \in {"flush", "flush_sleep"}
  /\ received = << >>
  /\ \E slot \in MessageSlots :
       /\ inbound[slot].state = "absent"
       /\ \A m \in 1..(slot - 1) : inbound[m].state # "absent"
       /\ \E result \in LabelResults :
            inbound' = [inbound EXCEPT
                          ![slot] = InboundMessage(TRUE, MESSAGE_TYPES.ML_RESULT, result)]
  /\ UNCHANGED <<source_rows, componentVars, cdcVars, received, dicta_call_summary,
                 conversation_summary, conversation_category, last_write,
                 first_try, applied, faults>>

NextIngest ==
  \/ IngestArrival
  \/ FlushReceive
  \/ FlushMessage
  \/ FlushWake

SpecIngest == InitFlush /\ [][NextIngest]_vars

(***************************************************************************)
(* Historical mode (historical_mode_enabled and IS_ENABLED of the row      *)
(* CDC_HISTORICAL_MODE set): collect_historical_calls and process_batch,   *)
(* which use the single-source assembler, sender and marker.               *)
(***************************************************************************)
\* the contents of VERINT_TEXT_ANALYSIS for one id of a historical run
HistoricalShapes(id) ==
  CASE id = "V1" ->
         { MkRows(11, <<"A", "C">>, <<TXT>>, <<1>>, <<1>>),
           MkRows(11, <<"A", "C">>, <<TXT>>, <<1, 2>>, <<1, 2>>),
           MkRows(10, <<"A", "C">>, <<TXT>>, <<1>>, <<1>>) }
    [] id = "V2" ->
         { << >>,
           MkRows(11, <<"C", "A">>, <<TXT>>, <<2>>, <<2>>),
           MkRows(11, <<"C", "A">>, <<TXT>>, <<3>>, <<3>>),
           MkRows(11, <<"C", "A">>, <<TXT>>, <<4>>, <<4>>) }
    [] OTHER -> { << >> }

\* SELECT DISTINCT CALL_ID, CALL_TIME ... WHERE CALL_TIME >= :start_time AND
\* CALL_TIME < :start_time + INTERVAL '1' DAY AND CALL_ID NOT IN (processed)
HistoricalCandidates(table, processedCalls, start_time) ==
  {pair \in CandidatePairs("verint", table, processedCalls) :
     pair[2] >= start_time /\ pair[2] < start_time + HistoricalDay}

\* ORDER BY CALL_TIME ASC FETCH FIRST :batch_size ROWS ONLY, then
\* call_ids = [row[0] for row in rows]; rows of one CALL_TIME come in any order
collect_historical_calls(table, processedCalls, start_time) ==
  { RecordIds(rows) :
      rows \in FetchFirst(HistoricalCandidates(table, processedCalls, start_time),
                          MaxBatchSize) }

\* the greatest CALL_TIME of the fragments of an id
MaxFragmentTime(table, call_id) ==
  CHOOSE t \in {table[call_id][i].T : i \in DOMAIN table[call_id]} :
    \A i \in DOMAIN table[call_id] : table[call_id][i].T <= t

\* call_ids = self.collect_historical_calls(); query_ok false: the query
\* fails and the function returns []
HistoricalCollect ==
  /\ historical.pc = "collect"
  /\ historical.cycle < MaxCycles
  /\ \E query_ok \in BOOLEAN :
       \E call_ids \in IF query_ok
                       THEN collect_historical_calls(source_rows, cdc_processed_calls,
                                                     historical.last_processed_timestamp)
                       ELSE {<< >>} :
         /\ faults' = IF query_ok THEN faults ELSE faults + 1
         /\ faults' <= MaxFaults
         /\ historical' = [historical EXCEPT
                             !.batch = call_ids,
                             !.batch_max = 0,
                             !.batch_done = FALSE,
                             !.pc = IF call_ids # << >> THEN "batch" ELSE "collect",
                             !.cycle = IF call_ids # << >> THEN @ ELSE @ + 1]
  /\ UNCHANGED <<pipelineVars, textVars, alertVars, mlqVars, backfillVars, runVars,
                 evalVars>>

\* self.update_cdc_status(mode, datetime.utcnow()): LAST_PROCESSED_TIMESTAMP
\* = :ts, TOTAL_PROCESSED = TOTAL_PROCESSED + 1
HistoricalStatus(row, call_time) ==
  [row EXCEPT !.last_processed_timestamp = UtcNow, !.total_processed = @ + 1]

\* one pass of the for loop of process_batch: assemble_conversation has the
\* 11 segments and the channels A and C of the verint source
HistoricalProcess ==
  /\ historical.pc = "batch"
  /\ historical.batch # << >>
  /\ LET call_id == Head(historical.batch)
         conversation == assemble_conversation_for_source(call_id, "verint", source_rows)
         call_time == MaxFragmentTime(source_rows, call_id)
         rest == Tail(historical.batch)
         after(row, sent) ==
           [row EXCEPT !.batch = rest,
                       !.batch_max = IF sent /\ call_time > @ THEN call_time ELSE @,
                       !.batch_done = rest = << >>,
                       !.pc = IF rest # << >> THEN "batch" ELSE "collect",
                       !.cycle = IF rest # << >> THEN @ ELSE @ + 1]
     IN  IF conversation # NoConversation
         THEN \E send_ok, mark_ok \in BOOLEAN :
                /\ faults' = faults + DispatchFaults(send_ok, mark_ok)
                /\ faults' <= MaxFaults
                /\ IF send_ok
                   THEN /\ outbound' = Append(outbound, OutboundMessage(conversation, "verint"))
                        /\ cdc_processed_calls' =
                             mark_call_processed_for_source(cdc_processed_calls, call_id,
                                                            Len(outbound) + 1, mark_ok)
                        /\ stats' = [stats EXCEPT !.total_sqs_sent = @ + 1,
                                                  !.total_calls_processed = @ + 1]
                        /\ historical' = after(HistoricalStatus(historical, call_time), TRUE)
                        /\ UNCHANGED error_log
                   ELSE /\ error_log' = log_error(error_log, call_id, "SQS_SEND_FAILED")
                        /\ stats' = [stats EXCEPT !.total_sqs_failed = @ + 1,
                                                  !.total_calls_failed = @ + 1]
                        /\ historical' = after(historical, FALSE)
                        /\ UNCHANGED <<outbound, cdc_processed_calls>>
         ELSE /\ stats' = Bump("total_calls_failed")
              /\ historical' = after(historical, FALSE)
              /\ UNCHANGED <<outbound, cdc_processed_calls, error_log, faults>>
  /\ UNCHANGED <<source_rows, pc, src_idx, batch, pending_source_types,
                 cdc_processing_status, last_dispatch, last_record, ingestVars,
                 textVars, alertVars, mlqVars, backfillVars, runVars, evalVars>>

InitHistorical ==
  /\ source_rows \in [Ids -> UNION {HistoricalShapes(id) : id \in Ids}]
  /\ \A id \in Ids : source_rows[id] \in HistoricalShapes(id)
  /\ InitProcess
  /\ ComponentsIdle

NextHistorical ==
  \/ HistoricalCollect
  \/ HistoricalProcess

SpecHistorical == InitHistorical /\ [][NextHistorical]_vars

(***************************************************************************)
(* LiveCdc: the CDC loop without a bound on its cycles, over tables in     *)
(* which the fragments of V1 are older than those of V2.  The loop runs a  *)
(* cycle every poll interval, so each step that is enabled is taken.       *)
(***************************************************************************)
\* V1: short or without the customer channel, its fragments at three
\* times, or complete; V2: complete and newer
StarvationShapes(id) ==
  CASE id = "V1" ->
         { MkRows(10, <<"A", "C">>, <<TXT>>, <<1, 2, 3>>, <<1, 2, 3>>),
           MkRows(12, <<"A">>, <<TXT>>, <<1, 2, 3>>, <<1, 2, 3>>),
           MkRows(11, <<"A", "C">>, <<TXT>>, <<1>>, <<1>>) }
    [] id = "V2" ->
         { MkRows(11, <<"C", "A">>, <<TXT>>, <<4>>, <<4>>) }
    [] id = "S1" ->
         { MkRows(5, <<"C", "B">>, <<TXT>>, <<1>>, <<1, 2, 3>>),
           MkRows(4, <<"C", "A">>, <<TXT>>, <<1>>, <<1, 2>>) }

\* top of the while loop, in a run that is not cut off after MaxCycles
StartCycleUnbounded ==
  /\ run_pc = "loop"
  /\ is_running
  /\ pc = "sleep"
  /\ stats' = Bump("cycles_completed")
  /\ pc' = IF normal_mode_enabled THEN "collect" ELSE "ingest"
  /\ src_idx' = 1
  /\ UNCHANGED <<source_rows, componentVars, batch, pending_source_types, cdc_processed_calls,
                 cdc_processing_status, error_log, outbound, last_dispatch,
                 last_record, ingestVars, faults>>

InitLiveCdc ==
  /\ source_rows \in [Ids -> UNION {StarvationShapes(id) : id \in Ids}]
  /\ \A id \in Ids : source_rows[id] \in StarvationShapes(id)
  /\ InitProcess
  /\ ComponentsIdle

NextLiveCdc ==
  \/ StartCycleUnbounded
  \/ Collect
  \/ ProcessRecord
  \/ ReceiveMlResults

\* the loop has a step to take in every state (after its sleep the next
\* cycle starts), and the process takes it
LiveCdc ==
  /\ InitLiveCdc
  /\ [][NextLiveCdc]_vars
  /\ WF_vars(StartCycleUnbounded)
  /\ []<><<NextLiveCdc>>_vars

(***************************************************************************)
(* Properties.                                                             *)
(***************************************************************************)
\* the step is one pass of the for loop of process_batch_for_source
RecordStep == pc = "batch" /\ batch # << >> /\ batch' = Tail(batch)

\* the step is one pass of the for loop of receive_ml_results
ResultStep == pc = "results" /\ received # << >> /\ received' = Tail(received)

\* the ids that have an ERROR_LOG row of the type
LoggedIds(error_type) ==
  {error_log[i].CALL_ID : i \in {j \in DOMAIN error_log : error_log[j].ERROR_TYPE = error_type}}

\* C1: no duplicate dispatch.  For every source id the outbound queue
\* receives at most one message in the lifetime of one process: no two
\* messages on the outbound queue carry the same callId.
C1_NoDuplicateDispatch ==
  \A i, j \in DOMAIN outbound :
     i # j => outbound[i].MessageAttributes.callId # outbound[j].MessageAttributes.callId

\* C2: whenever send_to_sqs_for_source returned a message id for a
\* conversation, CDC_PROCESSED_CALLS holds a row for its id, whatever the
\* outcome of the mark step was.
C2_TokenImpliesMarked ==
  last_dispatch.message_id # 0 => cdc_processed_calls[last_dispatch.call_id] # 0

\* a dispatch whose send failed: the except branch counts it in total_sqs_failed
SendFailedStep == RecordStep /\ stats'.total_sqs_failed = stats.total_sqs_failed + 1

\* the driver collects a batch for the source in work
CollectStep == pc = "collect" /\ pc' # "collect"

RowsOf(dicta, summary, category, id, source_type) ==
  <<DeleteWhere(dicta, LAMBDA r : r.CALL_ID # id),
    DeleteWhere(summary, LAMBDA r : ~(r.SOURCE_ID = id /\ r.SOURCE_TYPE = source_type)),
    DeleteWhere(category, LAMBDA r : ~(r.SOURCE_ID = id /\ r.SOURCE_TYPE = source_type))>>

\* the message in the slot is one the ingestor hands to write_ml_result
Accepted(slot) ==
  inbound[slot].json_ok /\ inbound[slot].messageType = MESSAGE_TYPES.ML_RESULT

\* the step hands the message in the slot to write_ml_result
WriteStep(slot) == ResultStep /\ Head(received) = slot /\ Accepted(slot)

\* C4: idempotence of ingest.  When a result payload is applied again to an
\* id whose last successful write was the same payload under the same
\* derived source type (and no other payload touched the id since), the
\* rows of the id in DICTA_CALL_SUMMARY, CONVERSATION_SUMMARY and
\* CONVERSATION_CATEGORY are the same after the write as before it, whether
\* the write succeeds or fails: one summary row per table and the same set
\* of category rows.
C4_IngestIdempotent ==
  [][ \A slot \in MessageSlots :
        WriteStep(slot) =>
          LET result == inbound[slot].body
              source_type == DerivedSourceType(pending_source_types, result)
              before == RowsOf(dicta_call_summary, conversation_summary,
                               conversation_category, result.callId, source_type)
              after == RowsOf(dicta_call_summary', conversation_summary',
                              conversation_category', result.callId, source_type)
          IN  applied[result.callId] = [result |-> result, source_type |-> source_type]
                => /\ after = before
                   /\ after[1] = SetToBag({DictaRow(result)})
                   /\ after[2] = SetToBag({SummaryRow(result, source_type, source_rows)})
                   /\ after[3] = SetToBag({CategoryRow(result, source_type, c) :
                                             c \in CategoryCodes(result)})
    ]_vars

\* C4 witness: the same payload for V1 arrived in two messages, both were
\* written with success under the same source type and deleted
C4_Witness ==
  \E m1, m2 \in MessageSlots :
     /\ m1 < m2
     /\ inbound[m1].state = "deleted" /\ inbound[m2].state = "deleted"
     /\ inbound[m1].body = inbound[m2].body
     /\ first_try[m1] = first_try[m2]
     /\ first_try[m1].success
     /\ applied[inbound[m1].body.callId].result = inbound[m1].body

\* C5: at-least-once ingest.  When the first write of a result message
\* failed and a later write of the same message succeeds, the rows are
\* written under the source type the first attempt derived and are the rows
\* that attempt would have written; this holds for ids of every source.
C5_RetryEqualsFirstAttempt ==
  (last_write.success /\ ~first_try[last_write.slot].success) =>
     LET result == inbound[last_write.slot].body
         source_type == first_try[last_write.slot].source_type
     IN  /\ last_write.source_type = source_type
         /\ BagIn(SummaryRow(result, source_type, source_rows), conversation_summary)
         /\ \A c \in CategoryCodes(result) :
               BagIn(CategoryRow(result, source_type, c), conversation_category)

\* C6: the ingestor deletes an inbound message only in the step in which
\* write_ml_result returned True for it; a message whose body is not JSON,
\* whose messageType is not ML_PROCESSING_RESULT or whose write failed stays
\* on the queue unchanged.
C6_DeleteOnlyAfterWrite ==
  [][ \A m \in MessageSlots :
        /\ (inbound[m].state = "visible" /\ inbound'[m] # inbound[m]) =>
              /\ inbound'[m] = [inbound[m] EXCEPT !.state = "deleted"]
              /\ WriteStep(m)
              /\ last_write'.slot = m
              /\ last_write'.success
              /\ stats'.total_ml_results_written = stats.total_ml_results_written + 1
        /\ inbound[m].state = "deleted" => inbound'[m] = inbound[m]
    ]_vars

\* C6 witness: one message was written and deleted, another was handed to
\* write_ml_result, the write failed, and it is still on the queue
C6_Witness ==
  \E m1, m2 \in MessageSlots :
     /\ inbound[m1].state = "deleted"
     /\ inbound[m2].state = "visible"
     /\ first_try[m2] # NoTry
     /\ ~first_try[m2].success
     /\ last_write.slot = m2 /\ ~last_write.success

\* at least one fragment has non-empty trimmed text
HasText(rows) == \E i \in DOMAIN rows : Truthy(rows[i].TEXT) /\ Truthy(Strip(rows[i].TEXT))

\* the gate of the claim: enough segments, the required channels, some text
Gate(id) ==
  LET rows == source_rows[id]
      source == TABLE_SOURCES[IdSource[id]]
  IN  /\ Len(rows) >= source.min_segments
      /\ source.required_channels \subseteq Channels(rows)
      /\ HasText(rows)

\* C7: assembly gating.  The assembler emits a document for an id (the id
\* goes on to dispatch) if and only if its fragments are at least
\* min_segments, the required channels are among the observed ones and at
\* least one fragment has non-empty trimmed text; every document that was
\* sent has a non-empty message list.
C7_AssemblyGating ==
  /\ last_record.record_id \in Ids =>
       (last_record.outcome \in {"sent", "send_failed"} <=> Gate(last_record.record_id))
  /\ \A i \in DOMAIN outbound : outbound[i].MessageBody.messages # << >>

\* the rows of the id are enough but lack a required channel
MissingChannel(id) ==
  LET rows == source_rows[id]
      source == TABLE_SOURCES[IdSource[id]]
  IN  /\ Len(rows) >= source.min_segments
      /\ ~(source.required_channels \subseteq Channels(rows))

\* C8 as stated: when assembly rejects an id for a missing required
\* channel, nothing is sent, no processed row is created and an ERROR_LOG
\* row of type ASSEMBLY_REJECTED is appended.
C8_RejectionLogged ==
  [][ (RecordStep /\ MissingChannel(Head(batch))) =>
        /\ outbound' = outbound
        /\ cdc_processed_calls' = cdc_processed_calls
        /\ error_log' = Append(error_log, [CALL_ID |-> Head(batch),
                                           ERROR_TYPE |-> "ASSEMBLY_REJECTED"])
    ]_vars

\* C8 amended: when assembly rejects an id for a missing required channel,
\* nothing is sent, no processed row is created, ERROR_LOG is left as it is
\* (the rejection is only written to the log file) and total_calls_failed
\* is incremented.
C8_RejectionNotLogged ==
  [][ (RecordStep /\ MissingChannel(Head(batch))) =>
        /\ outbound' = outbound
        /\ cdc_processed_calls' = cdc_processed_calls
        /\ error_log' = error_log
        /\ stats' = [stats EXCEPT !.total_calls_failed = @ + 1]
    ]_vars

\* C8 witness: the last record was rejected for a missing channel
C8_Witness ==
  /\ last_record.record_id \in Ids
  /\ MissingChannel(last_record.record_id)
  /\ last_record.outcome = "missing_channels"
  /\ stats.total_calls_failed > 0

\* the derivation of the claim: the catalog entry of the payload's source
\* id, else the pending entry, else CALL
ClaimedSourceType(pending, result) ==
  IF result.sourceId # NULL THEN TABLE_SOURCES[result.sourceId].dest_source_type
  ELSE IF pending[result.callId] # NULL THEN pending[result.callId]
  ELSE "CALL"

C10_SentimentInRange ==
  \A r \in BagToSet(dicta_call_summary) : r.SENTIMENT \in 1..5

\* C11: the churn score stored in CONVERSATION_SUMMARY is churn_confidence
\* times 100 clamped to 0..100, so it is never below 0 or above 100.
C11_ChurnScoreInRange ==
  \A r \in BagToSet(conversation_summary) : r.CHURN_SCORE \in 0..100

\* the texts of the last call joined by ', ', for a list or dict given as
\* such or as JSON text
JoinedTexts ==
  LET value == text_call.value
      doc == IF value.tag = "str" THEN JsonLoads(str_strip(value.s)).v ELSE value
  IN  str_join(ActionTexts(doc), CommaSpace)

\* the argument of the last call is a list or a dict, as such or as JSON text
IsDocument ==
  \/ text_call.value.tag \in {"list", "dict"}
  \/ /\ text_call.value.tag = "str"
     /\ JsonLoads(str_strip(text_call.value.s)).ok
     /\ JsonLoads(str_strip(text_call.value.s)).v.tag \in {"list", "dict"}

\* C12: extract_action_items_text returns at most max_length characters for
\* every input; when the joined text of a list or dict is longer, the result
\* is the text cut to max_length, cut back to the last comma when that comma
\* lies beyond half of max_length, without trailing commas and spaces.
C12_ActionItemsTruncated ==
  text_call.fn = "extract_action_items_text" =>
    /\ Len(text_call.out) <= MaxActionLength
    /\ (IsDocument /\ Len(JoinedTexts) <= MaxActionLength) => text_call.out = JoinedTexts
    /\ (IsDocument /\ Len(JoinedTexts) > MaxActionLength) =>
         LET cut == SubSeq(JoinedTexts, 1, MaxActionLength)
             last_comma == str_rfind(cut, ",")
             out == text_call.out
         IN  /\ out = SubSeq(JoinedTexts, 1, Len(out))
             /\ out # << >> => out[Len(out)] \notin {",", " "}
             /\ 2 * last_comma > MaxActionLength =>
                  /\ Len(out) <= last_comma
                  /\ \A i \in Len(out) + 1 .. last_comma : JoinedTexts[i] \in {",", " "}
             /\ 2 * last_comma <= MaxActionLength =>
                  \A i \in Len(out) + 1 .. MaxActionLength : JoinedTexts[i] \in {",", " "}

\* C12 witness: a list whose joined text is too long was cut back to a comma
\* beyond half of max_length
C12_Witness ==
  /\ text_call.fn = "extract_action_items_text"
  /\ IsDocument
  /\ Len(JoinedTexts) > MaxActionLength
  /\ 2 * str_rfind(SubSeq(JoinedTexts, 1, MaxActionLength), ",") > MaxActionLength
  /\ Len(text_call.out) < MaxActionLength

\* C13: clean_json_to_csv gives the same result for the JSON text of a list
\* or dict as for the list or dict itself; for a list the result is the
\* items that are not empty, each without the characters [ ] { } " ' and
\* without surrounding blanks, joined by ', '; for a string that is not the
\* JSON text of a list or dict it is the string without those characters,
\* its comma-separated parts trimmed and the empty parts dropped; None and
\* the empty string give ''.
C13_CleanJsonToCsv ==
  text_call.fn = "clean_json_to_csv" =>
    LET value == text_call.value
        out == text_call.out
        stripped(t) == str_strip(SelectSeq(t, LAMBDA c : c \notin {"[", "]", "{", "}", "\"", "'"}))
        nonempty(seq) == SelectSeq(seq, LAMBDA t : t # << >>)
    IN  /\ (value.tag = "str" /\ IsDocument) =>
             out = clean_json_to_csv(JsonLoads(str_strip(value.s)).v)
        /\ value.tag = "list" =>
             LET items == SelectSeq(value.items, Bool)
             IN  out = str_join(nonempty([i \in DOMAIN items |-> stripped(PyStr(items[i]))]),
                                <<",", " ">>)
        /\ (value.tag = "str" /\ ~IsDocument) =>
             LET parts == str_split(SelectSeq(str_strip(value.s),
                                              LAMBDA c : c \notin {"[", "]", "{", "}", "\"", "'"}),
                                    ",")
             IN  out = str_join(nonempty([i \in DOMAIN parts |-> str_strip(parts[i])]),
                                <<",", " ">>)
        /\ value \in {PNone, PStr(<< >>)} => out = << >>
        /\ (value.tag = "list" \/ (value.tag = "str" /\ ~IsDocument)) =>
             \A i \in DOMAIN out : out[i] \notin {"[", "]", "{", "}", "\"", "'"}

\* C13 witness: the JSON text of the list ["a'b", " d "] was cleaned to
\* 'ab, d'
C13_Witness ==
  /\ text_call.fn = "clean_json_to_csv"
  /\ text_call.value =
       PStr(JsonDumps(PList(<<PStr(<<"a", "'", "b">>), PStr(<<" ", "d", " ">>)>>)))
  /\ text_call.out = <<"a", "b", ",", " ", "d">>

\* C14: an alert-history row is created in status ACTIVE; the only status
\* changes are ACTIVE to ACKNOWLEDGED by acknowledge and ACTIVE or
\* ACKNOWLEDGED to RESOLVED by resolve; a RESOLVED row never changes, rows
\* are never removed, and acknowledge on a row that is not ACTIVE changes
\* nothing.
C14_AlertStateMachine ==
  [][ /\ Len(alert_history') >= Len(alert_history)
      /\ \A h \in DOMAIN alert_history' :
           IF h \in DOMAIN alert_history
           THEN \/ alert_history'[h] = alert_history[h]
                \/ /\ alert_history[h].STATUS = "ACTIVE"
                   /\ alert_history'[h].STATUS = "ACKNOWLEDGED"
                   /\ alert_op' = [op |-> "acknowledge", history_id |-> h]
                \/ /\ alert_history[h].STATUS \in {"ACTIVE", "ACKNOWLEDGED"}
                   /\ alert_history'[h].STATUS = "RESOLVED"
                   /\ alert_op' = [op |-> "resolve", history_id |-> h]
           ELSE alert_history'[h].STATUS = "ACTIVE"
      /\ \A h \in DOMAIN alert_history :
           (alert_op' = [op |-> "acknowledge", history_id |-> h]
              /\ alert_history[h].STATUS # "ACTIVE") => alert_history' = alert_history
    ]_vars

\* C14 witness: a row went from ACTIVE over ACKNOWLEDGED to RESOLVED and the
\* last call was an acknowledge of that row
C14_Witness ==
  /\ alert_op.op = "acknowledge"
  /\ alert_op.history_id \in DOMAIN alert_history
  /\ alert_history[alert_op.history_id].STATUS = "RESOLVED"
  /\ alert_history[alert_op.history_id].ACKNOWLEDGED_BY # NULL
  /\ alert_history[alert_op.history_id].RESOLVED_BY # NULL

\* C15: with evaluator runs one after another, a configuration has at most
\* one ACTIVE row at any time.
C15_OneActiveRow ==
  \A alert_id \in DOMAIN ALERT_CONFIGURATIONS :
     Cardinality(ActiveRows(alert_history, alert_id)) <= 1

\* C16: a step of the evaluator leaves every existing alert-history row as
\* it is, whether the condition is triggered or not; a row changes only in
\* an acknowledge or resolve call.
C16_EvaluatorKeepsRows ==
  [][ /\ alert_op'.op \in {"evaluate", "create"} =>
           \A h \in DOMAIN alert_history :
              h \in DOMAIN alert_history' /\ alert_history'[h] = alert_history[h]
      /\ (\E h \in DOMAIN alert_history :
             h \notin DOMAIN alert_history' \/ alert_history'[h] # alert_history[h])
           => alert_op'.op \in {"acknowledge", "resolve"}
    ]_vars

\* C16 witness: a run has evaluated configuration A1, which has an ACTIVE
\* row, and has gone on to A2
C16_Witness ==
  /\ alert_op.op = "evaluate"
  /\ \E e \in Evaluators : evaluator[e].pc = "loop" /\ Head(evaluator[e].todo) = "A2"
  /\ ActiveRows(alert_history, "A1") # {}

ApproveOf(rec_id) == mlq_op'.op = "approve" /\ mlq_op'.rec_id = rec_id

\* the id has a row in status PENDING
IsPending(rec_id) ==
  rec_id \in DOMAIN recommendations /\ recommendations[rec_id].STATUS = "PENDING"

C20_StatusOnlyFromPending ==
  [][ \A rec_id \in DOMAIN recommendations :
        recommendations'[rec_id].STATUS # recommendations[rec_id].STATUS =>
           /\ recommendations[rec_id].STATUS = "PENDING"
           /\ recommendations'[rec_id].STATUS \in {"APPROVED", "REJECTED"}
    ]_vars

\* C20 witness of the reject contract: a reject call moved a PENDING row to
\* REJECTED with the reason
C20_RejectedFromPending ==
  /\ mlq_op.op = "reject" /\ mlq_op.rec_id = "R1" /\ mlq_op.status = 200
  /\ recommendations["R1"].STATUS = "REJECTED"
  /\ recommendations["R1"].NOTES.reason \in Reasons
  /\ recommendations["R1"].APPROVED_BY = NULL

\* the step is one pass of the for loop of process_batch
BackfillProcessStep == bf_batch # << >> /\ bf_batch' = Tail(bf_batch)

\* the step is a collection of the backfill that returned rows
BackfillCollectStep == bf_batch = << >> /\ bf_batch' # << >>

\* the fragments of the call do not pass the gate of the assembler
AssemblyRejects(call_id) ==
  source_rows[call_id] # << >>
    /\ assemble_conversation(call_id, source_rows) = NoConversation

\* C21: in the backfill, a call whose assembly is rejected (too few
\* segments, a missing channel, no non-empty text) gets no message and,
\* when the MERGE of mark_processed commits, has a row in the processed-ID
\* store; a rejected call that has a row in the store is not returned by a
\* later batch; a call whose send fails is not added to the store.
C21_RejectedMarkedNotSent ==
  [][ /\ (BackfillProcessStep /\ bf_last'.rejected) =>
           /\ bf_outbound' = bf_outbound
           /\ bf_last'.marked => bf_processed'[bf_last'.call_id] # 0
      /\ (BackfillProcessStep /\ bf_last'.conversation /\ ~bf_last'.sent) =>
           bf_processed' = bf_processed
      /\ BackfillCollectStep =>
           \A i \in DOMAIN bf_batch' :
              ~(AssemblyRejects(bf_batch'[i].call_id)
                  /\ bf_processed[bf_batch'[i].call_id] # 0)
    ]_vars

\* C22: the CALL_TIME of the first row of a bulk batch is not earlier than
\* the CALL_TIME of the last row of the bulk batch before it, for every
\* pattern of send and mark outcomes.
C22_BulkTimesNonDecreasing ==
  [][ (bf_pc = "bulk" /\ bf_pc' = "bulk_batch" /\ bf_bulk_last # 0) =>
         bf_batch'[1].call_time >= bf_bulk_last
    ]_vars

\* C23: the delta phase starts only after a bulk collection returned no
\* row because no unprocessed call is left in the retention window; a
\* delta batch is collected only in the delta phase, and no bulk batch is
\* collected after the delta phase has started.
C23_DeltaAfterBulkEmpty ==
  [][ /\ (phase = "BULK" /\ phase' = "DELTA") =>
           /\ bf_pc = "bulk"
           /\ BulkCandidates(source_rows, bf_processed) = {}
      /\ bf_pc' \in {"delta", "delta_batch"} => phase' = "DELTA"
      /\ phase = "DELTA" => (phase' = "DELTA" /\ bf_pc' \notin {"bulk", "bulk_batch"})
    ]_vars

\* C24: a backfill run over a fixed source table eventually finishes both
\* phases and returns, for every pattern of send outcomes.
C24_BackfillTerminates == <>(bf_pc = "done")

\* C25: a shutdown signal that arrives while an id is in work leaves no id
\* half done (a message that was sent is also marked), and no cycle starts
\* after the signal
C25_InFlightIdFinished ==
  [][/\ (is_running /\ ~is_running' /\ run_last'.record_id # NULL /\
           Len(outbound') > Len(outbound))
          => cdc_processed_calls'[run_last'.record_id] # 0
     /\ run_pc = "stopped" => stats'.cycles_completed = stats.cycles_completed]_vars

\* C26: only the shutdown signal ends the loop; a step in which the
\* database or a queue fails leaves the process in the loop, running
C26_FailuresNeverFatal ==
  [][/\ (is_running /\ ~is_running') => run_last'.event = "interrupt"
     /\ (run_pc = "loop" /\ faults' > faults)
          => (is_running' /\ run_pc' = "loop" /\
              pc' \in {"sleep", "collect", "batch", "ingest", "results"})]_vars

\* a cycle was abandoned by an error and the next cycle has been run
C26_Witness ==
  /\ run_last.event = "error"
  /\ is_running
  /\ stats.cycles_completed > run_last.cycle
  /\ pc = "sleep"

\* C27: the main loop is entered only when every required table exists
C27_LoopOnlyWithTables == is_running => tables = REQUIRED_TABLES

\* C28: the flush mode writes nothing but ingested results, and once a
\* receive has returned no message the process has stopped
C28_FlushDrainsAndExits ==
  /\ run_pc \in {"flush", "flush_sleep"} =>
       (outbound = << >> /\ error_log = << >> /\ cdc_processed_calls = [id \in Ids |-> 0])
  /\ run_last.event = "empty_receive" => run_pc = "stopped"

\* the step is one run of run_weekly_evaluation
EvaluationStep == eval_last'.run = eval_last.run + 1

\* the rows the step added to ML_CONFIG_RECOMMENDATIONS
PersistedByStep == SubSeq(eval_recs', Len(eval_recs) + 1, Len(eval_recs'))

C30_OneHistoryRowWithCount ==
  [][EvaluationStep =>
       /\ Len(eval_history') = Len(eval_history) + 1
       /\ eval_history'[Len(eval_history')].RECOMMENDATIONS_GENERATED
            = Len(PersistedByStep)]_vars

\* the labels of classification.all and of classifications, without the
\* empty string
UnionOfLabels(result) ==
  {c \in Range(result.classification.all) \cup Range(result.classifications) : c # ""}

\* the rows of CONVERSATION_CATEGORY for a key
CategoryRowsOf(source_type, source_id) ==
  {r \in DOMAIN conversation_category :
     r.SOURCE_TYPE = source_type /\ r.SOURCE_ID = source_id}

\* C31: after a result was written, the category rows of its key are the
\* union of classification.all and classifications without duplicates and
\* empty strings, each label in one row
C31_CategoryRowsAreUnion ==
  \A id \in Ids :
    applied[id] # NoApplied =>
      LET rows == CategoryRowsOf(applied[id].source_type, id)
      IN  /\ {r.CATEGORY_CODE : r \in rows} = UnionOfLabels(applied[id].result)
          /\ \A r \in rows : conversation_category[r] = 1

\* C32: for the fragments of a verint id, the backfill assembler emits a
\* document if and only if the CDC assembler emits one
C32_AssemblersAgree ==
  \A id \in Ids :
    IdSource[id] = "verint" =>
      (assemble_conversation(id, source_rows) # NoConversation
         <=> assemble_conversation_for_source(id, "verint", source_rows) # NoConversation)

\* C33: when a batch in which ids were processed is finished, the
\* timestamp of the HISTORICAL status row is the greatest fragment time of
\* the ids processed in the batch
C33_TimestampIsBatchMaximum ==
  (historical.batch_done /\ historical.batch_max # 0)
    => historical.last_processed_timestamp = historical.batch_max

\* C34: a batch that collect_new_calls_for_source returns holds each id at
\* most once, also when the fragments of an id carry different values in
\* the time column
C34_BatchIdsDistinct ==
  [][CollectStep =>
       \A i, j \in DOMAIN batch' : i # j => batch'[i] # batch'[j]]_vars

\* the id passes the checks of the assembler of its source
PassesAssembly(id) ==
  assemble_conversation_for_source(id, IdSource[id], source_rows) # NoConversation

\* C35: when no send and no mark fails, every id that passes the checks of
\* the assembler is on the outbound queue at some time, whatever older ids
\* the batches hold
C35_EveryGoodIdDispatched ==
  <>(faults > 0 \/ \A id \in Ids : PassesAssembly(id) => id \in SentIds)

HasDictaRow(table, id) == \E r \in DOMAIN table : r.CALL_ID = id

HasKeyRow(table, source_type, id) ==
  \E r \in DOMAIN table : r.SOURCE_TYPE = source_type /\ r.SOURCE_ID = id

\* the key of a destination table holds rows before the step and none after
DictaLost(id) ==
  HasDictaRow(dicta_call_summary, id) /\ ~HasDictaRow(dicta_call_summary', id)

SummaryLost(source_type, id) ==
  /\ HasKeyRow(conversation_summary, source_type, id)
  /\ ~HasKeyRow(conversation_summary', source_type, id)

CategoryLost(source_type, id) ==
  /\ HasKeyRow(conversation_category, source_type, id)
  /\ ~HasKeyRow(conversation_category', source_type, id)

DestTypes == {"CALL", "WAPP"}

\* C36 as stated: a key of DICTA_CALL_SUMMARY, CONVERSATION_SUMMARY or
\* CONVERSATION_CATEGORY that holds rows holds rows in every later state
C36_RowsNeverLost ==
  [][\A id \in Ids, source_type \in DestTypes :
       /\ ~DictaLost(id)
       /\ ~SummaryLost(source_type, id)
       /\ ~CategoryLost(source_type, id)]_vars

\* C36, amended: a key of DICTA_CALL_SUMMARY or CONVERSATION_SUMMARY that
\* holds rows holds rows in every later state, and so does a key of
\* CONVERSATION_CATEGORY unless a write for that key succeeds with a payload
\* that has no label left after the blank ones are dropped; a write that
\* fails removes no key from any table
C36_RowsLostOnlyByEmptyReplace ==
  [][\A id \in Ids, source_type \in DestTypes :
       /\ ~DictaLost(id)
       /\ ~SummaryLost(source_type, id)
       /\ CategoryLost(source_type, id) =>
            /\ last_write'.success
            /\ last_write'.call_id = id
            /\ last_write'.source_type = source_type
            /\ CategoryCodes(applied'[id].result) = {}]_vars

\* a write failed in the transaction of CONVERSATION_CATEGORY and the rows
\* that an earlier write had committed for the key are in the table
C36_Witness ==
  /\ ~last_write.success
  /\ last_write.call_id # NULL
  /\ applied[last_write.call_id] = NoApplied
  /\ HasDictaRow(dicta_call_summary, last_write.call_id)
  /\ HasKeyRow(conversation_category, last_write.source_type, last_write.call_id)

\* C37: no more results are counted as received than as written, no more
\* calls as processed than messages as sent, and no counter of self.stats
\* ever goes down
C37_CountersOrderedAndMonotone ==
  /\ [](/\ stats.total_ml_results_received <= stats.total_ml_results_written
        /\ stats.total_calls_processed <= stats.total_sqs_sent)
  /\ [][\A counter \in DOMAIN stats : stats'[counter] >= stats[counter]]_vars

\* a result was written and its delete_message failed, another was written
\* and counted, and a call was sent and counted
C37_Witness ==
  /\ stats.total_ml_results_received >= 1
  /\ stats.total_ml_results_written > stats.total_ml_results_received
  /\ stats.total_calls_processed >= 1
  /\ stats.total_sqs_failed >= 1

\* the insert of a run whose metric query or ACTIVE-row check had failed
InsertAfterFailedQuery(e) ==
  /\ evaluator[e].pc = "insert"
  /\ evaluator[e].failed
  /\ evaluator'[e] # evaluator[e]

\* C38: a run creates no ALERT_HISTORY row for a configuration whose metric
\* query or ACTIVE-row check failed in that run
C38_NoRowAfterFailedQuery ==
  [][\A e \in Evaluators :
       InsertAfterFailedQuery(e) => Len(alert_history') = Len(alert_history)]_vars

\* C39: as long as no query and no insert fails, a configuration has at most
\* one ALERT_HISTORY row in status ACTIVE, also when two runs interleave
C39_OneActiveRowWhenInterleaved ==
  faults = 0 =>
    \A alert_id \in DOMAIN ALERT_CONFIGURATIONS :
      Cardinality(ActiveRows(alert_history, alert_id)) <= 1

\* a / b <= c / d for ratios of counts with positive denominators
RatioAtMost(r, q) == r.num * q.den <= q.num * r.den

C40_WitnessUnscored ==
  /\ eval_last.evaluated
  /\ eval_last.metrics.total_churned > 0
  /\ eval_last.metrics.with_score = 0

====
